---------------------------- MODULE Spec2Model ----------------------------
(***************************************************************************)
(* Credit metering of the AI service (src/ai-service).                     *)
(*                                                                         *)
(* The state is the Firestore database the service works on (the "users"   *)
(* documents, the "credit_transactions" and "ai_interactions" collections, *)
(* the read-only "ai_agents" documents), the clock, and for every request  *)
(* in flight its position in its handler, its arguments, its local         *)
(* variables and, once it has returned, its result.                        *)
(*                                                                         *)
(* Granularity: one step is one Firestore request (a document get, update, *)
(* set, a collection add, or one whole @firestore.transactional function,  *)
(* which Firestore runs serializably), or the return of one provider call. *)
(* The Python between two such requests is local and is folded into the    *)
(* step that follows it.  Requests of several callers interleave freely    *)
(* between steps: the database is shared by every instance of the service. *)
(* Time is counted in whole days, the unit reset_monthly_credits compares. *)
(***************************************************************************)
EXTENDS Integers, Sequences, FiniteSets

(***************************************************************************)
(* Bounds of the model.                                                    *)
(***************************************************************************)
\* number of callers / requests that run concurrently
NumProcs == 2
\* largest balance of either credit type in an initial user document
MaxCredits == 2
\* largest amount a direct deduct_credits / add_credits call is made with
MaxAmount == 2
\* number of days the clock may advance
MaxTicks == 1
\* latest instant, in seconds, at which a rate-limit check is made
MaxSeconds == 61
\* largest number of rate-limit checks made, all users together
MaxChecks == 7

(***************************************************************************)
(* Program constants (config/settings.py, utils/credits.py).               *)
(***************************************************************************)
chat_credit_cost == 1
image_generation_cost == 1
music_generation_cost == 2
free_chat_credits_monthly == 25
free_gen_ai_credits_monthly == 25
premium_chat_credits == 100
premium_gen_credits == 50
pro_chat_credits == 500
pro_gen_credits == 200
reset_period_days == 30
rate_limit_per_minute == 5
window_seconds == 60

Procs == 1..NumProcs
Users == {"u1", "u2"}
CreditTypes == {"chat", "genai"}
Tiers == {"free", "pro", "premium"}
Amounts == 1..MaxAmount

VARIABLES
    users,                 \* collection "users": user id -> document
    credit_transactions,   \* collection "credit_transactions", in order of insertion
    ai_interactions,       \* collection "ai_interactions", in order of insertion
    now,                   \* the clock, in days
    pc,                    \* per request: position in its handler
    op,                    \* per request: the call and its arguments
    local,                 \* per request: local variables of the handler
    ret,                   \* per request: the value returned / the HTTP response
    trace,                 \* per request: history of the calls it has made
    users0,                \* history: the "users" collection of the initial state
    baseline,              \* history: per user, balances and ledger length at the last reset
    user_requests,         \* RateLimitMiddleware.user_requests: user id -> deque of timestamps
    clock,                 \* time.time(), in seconds
    rate_ret,              \* per user: what the last _check_rate_limit call returned
    rate_hist,             \* history: per user, the circumstances of the checks made
    address_requests,      \* the slowapi limiter's storage: remote address -> hits counted
    app_ret,               \* the answer of the application to the last POST /chat-call
    user_window            \* history: per user, the deque _check_rate_limit would keep

\* the state of the rate limiter
limiter == <<user_requests, clock, rate_ret, rate_hist, address_requests, app_ret,
             user_window>>

\* the state of the credit metering
metering == <<users, credit_transactions, ai_interactions, now, pc, op, local, ret,
              trace, users0, baseline>>

vars == <<users, credit_transactions, ai_interactions, now, pc, op, local, ret,
          trace, users0, baseline, user_requests, clock, rate_ret, rate_hist,
          address_requests, app_ret, user_window>>

(***************************************************************************)
(* Documents.                                                              *)
(***************************************************************************)
\* a "users" document that does not exist (doc.exists is False)
NoDoc ==
    [exists |-> FALSE, chatCredits |-> 0, genAICredits |-> 0,
     subscriptionTier |-> "free", lastCreditReset |-> 0, aiAgentTeam |-> {}]

\* the document initialize_user_credits writes
user_data(chat_credits, gen_ai_credits, server_timestamp) ==
    [exists |-> TRUE, chatCredits |-> chat_credits, genAICredits |-> gen_ai_credits,
     subscriptionTier |-> "free", lastCreditReset |-> server_timestamp,
     aiAgentTeam |-> {}]

\* the chat field for either credit type (used to test the claims)
field_name_chat_only(credit_type) == "chatCredits"

\* field_name = "chatCredits" if credit_type == "chat" else "genAICredits"
field_name(credit_type) ==
    IF credit_type = "chat" THEN "chatCredits" ELSE "genAICredits"

\* get_user_credits: None for a missing document, else the UserCredits read from it
get_user_credits(user_id) ==
    IF ~users[user_id].exists
    THEN [chat_credits |-> 0,
          gen_ai_credits |-> 0,
          found |-> FALSE,
          last_reset |-> 0,
          subscription_tier |-> "free"]
    ELSE [chat_credits |-> users[user_id].chatCredits,
          gen_ai_credits |-> users[user_id].genAICredits,
          found |-> TRUE,
          last_reset |-> users[user_id].lastCreditReset,
          subscription_tier |-> users[user_id].subscriptionTier]

(***************************************************************************)
(* Requests.                                                               *)
(***************************************************************************)
NoOp == [kind |-> "none"]
NoRet == [kind |-> "none"]
NoLocal ==
    [now |-> 0,
     current_credits |-> 0,
     new_chat_credits |-> 0,
     new_gen_credits |-> 0,
     success |-> FALSE,
     remaining_credits |-> 0,
     response_text |-> "none",
     available |-> 0]
\* what a request has done so far: whether it has read the balance for its
\* pre-check, the state of its provider call (none, pending, ok, failed), the
\* number of its deduct_credits calls, the credits they removed, the number of
\* interactions it has logged and whether one of its balance-store operations
\* failed because storage was unavailable
NoTrace ==
    [prechecked |-> FALSE, provider |-> "none", deduct_calls |-> 0, charged |-> 0,
     logged |-> 0, storage_failed |-> FALSE]

Goto(p, label) ==
    /\ pc' = [pc EXCEPT ![p] = label]
    /\ UNCHANGED ret

Return(p, value) ==
    /\ pc' = [pc EXCEPT ![p] = "done"]
    /\ ret' = [ret EXCEPT ![p] = value]

Call(p, label, request) ==
    /\ pc[p] = "idle"
    /\ pc' = [pc EXCEPT ![p] = label]
    /\ op' = [op EXCEPT ![p] = request]
    /\ UNCHANGED limiter
    /\ UNCHANGED <<users, credit_transactions, ai_interactions, now, local, ret,
                   trace, users0, baseline>>

(***************************************************************************)
(* FirestoreService.deduct_credits                                         *)
(***************************************************************************)
\* update_credits without the balance check (used to test the claims)
update_credits_unchecked(doc, credit_type, amount) ==
    IF ~doc.exists
    THEN [success |-> FALSE,
          doc |-> doc,
          remaining |-> 0]
    ELSE [success |-> TRUE,
          doc |-> [doc EXCEPT ![field_name(credit_type)] = @ - amount],
          remaining |-> doc[field_name(credit_type)] - amount]

\* update_credits that reports success without writing (used to test the claims)
update_credits_no_write(doc, credit_type, amount) ==
    IF ~doc.exists
    THEN [success |-> FALSE,
          doc |-> doc,
          remaining |-> 0]
    ELSE IF doc[field_name(credit_type)] < amount
    THEN [success |-> FALSE,
          doc |-> doc,
          remaining |-> doc[field_name(credit_type)]]
    ELSE [success |-> TRUE,
          doc |-> doc,
          remaining |-> doc[field_name(credit_type)] - amount]

\* update_credits that takes what is left when the balance is too small (used to
\* test the claims)
update_credits_drain(doc, credit_type, amount) ==
    IF ~doc.exists
    THEN [success |-> FALSE,
          doc |-> doc,
          remaining |-> 0]
    ELSE IF doc[field_name(credit_type)] < amount
    THEN [success |-> FALSE,
          doc |-> [doc EXCEPT ![field_name(credit_type)] = 0],
          remaining |-> 0]
    ELSE [success |-> TRUE,
          doc |-> [doc EXCEPT ![field_name(credit_type)] = @ - amount],
          remaining |-> doc[field_name(credit_type)] - amount]

\* a transaction that creates the document it does not find, with empty
\* balances (used to test the claims)
update_credits_upsert(doc, credit_type, amount) ==
    IF ~doc.exists
    THEN [success |-> FALSE,
          doc |-> user_data(0, 0, 0),
          remaining |-> 0]
    ELSE IF doc[field_name(credit_type)] < amount
    THEN [success |-> FALSE,
          doc |-> doc,
          remaining |-> doc[field_name(credit_type)]]
    ELSE [success |-> TRUE,
          doc |-> [doc EXCEPT ![field_name(credit_type)] = @ - amount],
          remaining |-> doc[field_name(credit_type)] - amount]

\* the transactional function update_credits, applied to the document it reads:
\* the (success, remaining) it returns and the document it leaves
update_credits(doc, credit_type, amount) ==
    IF ~doc.exists
    THEN [success |-> FALSE,
          doc |-> doc,
          remaining |-> 0]
    ELSE IF doc[field_name(credit_type)] < amount
    THEN [success |-> FALSE,
          doc |-> doc,
          remaining |-> doc[field_name(credit_type)]]
    ELSE [success |-> TRUE,
          doc |-> [doc EXCEPT ![field_name(credit_type)] = @ - amount],
          remaining |-> doc[field_name(credit_type)] - amount]

\* a caller invokes deduct_credits(user_id, credit_type, amount)
CallDeduct(p) ==
    \E u \in Users, t \in CreditTypes, a \in Amounts :
        Call(p, "deduct_txn",
             [credit_type |-> t,
              user_id |-> u,
              kind |-> "deduct",
              amount |-> a])

\* a deduction applied to the document of every user (used to test the
\* claims)
DeductTxnEveryUser(p) ==
    /\ pc[p] = "deduct_txn"
    /\ LET r == update_credits(users[op[p].user_id], op[p].credit_type, op[p].amount)
       IN /\ users' = [v \in Users |->
                 update_credits(users[v], op[p].credit_type, op[p].amount).doc]
          /\ Return(p, [kind |-> "deduct", success |-> r.success,
                        remaining |-> r.remaining])
    /\ UNCHANGED limiter
    /\ UNCHANGED <<credit_transactions, ai_interactions, now, op, local, trace,
                   users0, baseline>>

\* deduct_credits: the transaction runs and the call returns its result
DeductTxn(p) ==
    /\ pc[p] = "deduct_txn"
    /\ LET r == update_credits(users[op[p].user_id], op[p].credit_type, op[p].amount)
       IN /\ users' = [users EXCEPT ![op[p].user_id] = r.doc]
          /\ Return(p, [kind |-> "deduct", success |-> r.success,
                        remaining |-> r.remaining])
    /\ UNCHANGED limiter
    /\ UNCHANGED <<credit_transactions, ai_interactions, now, op, local, trace,
                   users0, baseline>>

(***************************************************************************)
(* CreditManager.add_credits                                               *)
(***************************************************************************)
\* _log_credit_transaction: the document added to "credit_transactions"
transaction_data(user_id, credit_type, amount, transaction_type) ==
    [amount |-> amount,
     userId |-> user_id,
     creditType |-> credit_type,
     type |-> transaction_type]

CallAdd(p) ==
    \E u \in Users, t \in CreditTypes, a \in Amounts :
        Call(p, "add_get",
             [credit_type |-> t,
              user_id |-> u,
              kind |-> "add",
              amount |-> a])

\* doc = doc_ref.get(); a missing user returns False
AddGet(p) ==
    /\ pc[p] = "add_get"
    /\ IF ~users[op[p].user_id].exists
       THEN /\ Return(p, [kind |-> "add", success |-> FALSE])
            /\ UNCHANGED local
       ELSE /\ local' = [local EXCEPT ![p].current_credits =
                            users[op[p].user_id][field_name(op[p].credit_type)]]
            /\ Goto(p, "add_update")
    /\ UNCHANGED limiter
    /\ UNCHANGED <<users, credit_transactions, ai_interactions, now, op, trace,
                   users0, baseline>>

\* doc_ref.update({field_name: current_credits + amount, ...})
AddUpdate(p) ==
    /\ pc[p] = "add_update"
    /\ users' = [users EXCEPT ![op[p].user_id][field_name(op[p].credit_type)] =
                    local[p].current_credits + op[p].amount]
    /\ Goto(p, "add_log")
    /\ UNCHANGED limiter
    /\ UNCHANGED <<credit_transactions, ai_interactions, now, op, local, trace,
                   users0, baseline>>

\* await self._log_credit_transaction(..., transaction_type="add"); return True
AddLog(p) ==
    /\ pc[p] = "add_log"
    /\ credit_transactions' = Append(credit_transactions,
           transaction_data(op[p].user_id, op[p].credit_type, op[p].amount, "add"))
    /\ Return(p, [kind |-> "add", success |-> TRUE])
    /\ UNCHANGED limiter
    /\ UNCHANGED <<users, ai_interactions, now, op, local, trace, users0, baseline>>

(***************************************************************************)
(* CreditManager.reset_monthly_credits                                     *)
(***************************************************************************)
\* the allotment of the free tier for every tier (used to test the claims)
tier_credits_free_only(subscription_tier) ==
    [chat |-> free_chat_credits_monthly, genai |-> free_gen_ai_credits_monthly]

\* the allotment of a subscription tier: (chat, genai)
tier_credits(subscription_tier) ==
    IF subscription_tier = "premium"
    THEN [chat |-> premium_chat_credits, genai |-> premium_gen_credits]
    ELSE IF subscription_tier = "pro"
    THEN [chat |-> pro_chat_credits, genai |-> pro_gen_credits]
    ELSE [chat |-> free_chat_credits_monthly, genai |-> free_gen_ai_credits_monthly]

CallReset(p) ==
    \E u \in Users :
        Call(p, "reset_get", [user_id |-> u,
                              kind |-> "reset"])

\* reset_monthly_credits without the test of the elapsed days (used to test
\* the claims)
ResetGetAlways(p) ==
    /\ pc[p] = "reset_get"
    /\ LET user_credits == get_user_credits(op[p].user_id)
       IN IF ~user_credits.found
          THEN /\ Return(p, [kind |-> "reset", success |-> FALSE])
               /\ UNCHANGED local
          ELSE /\ local' = [local EXCEPT
                      ![p].new_chat_credits =
                          tier_credits(user_credits.subscription_tier).chat,
                      ![p].new_gen_credits =
                          tier_credits(user_credits.subscription_tier).genai,
                      ![p].now = now]
               /\ Goto(p, "reset_update")
    /\ UNCHANGED limiter
    /\ UNCHANGED <<users, credit_transactions, ai_interactions, now, op, trace,
                   users0, baseline>>

\* user_credits = get_user_credits(user_id); now = datetime.now();
\* if (now - last_reset).days >= 30: compute the new credits, else return False
ResetGet(p) ==
    /\ pc[p] = "reset_get"
    /\ LET user_credits == get_user_credits(op[p].user_id)
       IN IF ~user_credits.found
          THEN /\ Return(p, [kind |-> "reset", success |-> FALSE])
               /\ UNCHANGED local
          ELSE IF now - user_credits.last_reset >= reset_period_days
          THEN /\ local' = [local EXCEPT
                      ![p].new_chat_credits =
                          tier_credits(user_credits.subscription_tier).chat,
                      ![p].new_gen_credits =
                          tier_credits(user_credits.subscription_tier).genai,
                      ![p].now = now]
               /\ Goto(p, "reset_update")
          ELSE /\ Return(p, [kind |-> "reset", success |-> FALSE])
               /\ UNCHANGED local
    /\ UNCHANGED limiter
    /\ UNCHANGED <<users, credit_transactions, ai_interactions, now, op, trace,
                   users0, baseline>>

\* doc_ref.update({chatCredits, genAICredits, lastCreditReset: now}); return True
ResetUpdate(p) ==
    /\ pc[p] = "reset_update"
    /\ users' = [users EXCEPT
           ![op[p].user_id].chatCredits = local[p].new_chat_credits,
           ![op[p].user_id].genAICredits = local[p].new_gen_credits,
           ![op[p].user_id].lastCreditReset = local[p].now]
    /\ baseline' = [baseline EXCEPT ![op[p].user_id] =
           [chatCredits |-> local[p].new_chat_credits,
            genAICredits |-> local[p].new_gen_credits,
            ledger |-> Len(credit_transactions)]]
    /\ Return(p, [kind |-> "reset", success |-> TRUE])
    /\ UNCHANGED limiter
    /\ UNCHANGED <<credit_transactions, ai_interactions, now, op, local, trace,
                   users0>>

(***************************************************************************)
(* api/users.py initialize_user, with                                      *)
(* FirestoreService.initialize_user_credits                                *)
(***************************************************************************)
\* the UserCredits a handler returns
account(user_credits) ==
    [chat_credits |-> user_credits.chat_credits,
     gen_ai_credits |-> user_credits.gen_ai_credits,
     last_reset |-> user_credits.last_reset,
     subscription_tier |-> user_credits.subscription_tier,
     kind |-> "account"]

http_error(status_code, detail) ==
    [kind |-> "error", status_code |-> status_code, detail |-> detail]

CallInitialize(p) ==
    \E u \in Users :
        Call(p, "init_user_get", [user_id |-> u,
                                  kind |-> "initialize"])

\* a first step that goes on to create the document without looking whether the
\* user exists (used to test the claims)
InitUserGetNoCheck(p) ==
    /\ pc[p] = "init_user_get"
    /\ Goto(p, "init_set")
    /\ UNCHANGED limiter
    /\ UNCHANGED <<users, credit_transactions, ai_interactions, now, op, local,
                   trace, users0, baseline>>

\* existing_credits = get_user_credits(current_user); an existing user is returned
InitUserGet(p) ==
    /\ pc[p] = "init_user_get"
    /\ IF get_user_credits(op[p].user_id).found
       THEN Return(p, account(get_user_credits(op[p].user_id)))
       ELSE Goto(p, "init_exists")
    /\ UNCHANGED limiter
    /\ UNCHANGED <<users, credit_transactions, ai_interactions, now, op, local,
                   trace, users0, baseline>>

\* initialize_user_credits: if doc_ref.get().exists: return True
InitExists(p) ==
    /\ pc[p] = "init_exists"
    /\ IF users[op[p].user_id].exists
       THEN Goto(p, "init_return")
       ELSE Goto(p, "init_set")
    /\ UNCHANGED limiter
    /\ UNCHANGED <<users, credit_transactions, ai_interactions, now, op, local,
                   trace, users0, baseline>>

\* a create step that adds the grant to what the document holds (used to test
\* the claims)
InitSetIncrement(p) ==
    /\ pc[p] = "init_set"
    /\ users' = [users EXCEPT ![op[p].user_id] =
           user_data(users[op[p].user_id].chatCredits + free_chat_credits_monthly,
                     users[op[p].user_id].genAICredits + free_gen_ai_credits_monthly,
                     now)]
    /\ baseline' = [baseline EXCEPT ![op[p].user_id] =
           [chatCredits |-> users'[op[p].user_id].chatCredits,
            genAICredits |-> users'[op[p].user_id].genAICredits,
            ledger |-> Len(credit_transactions)]]
    /\ Goto(p, "init_return")
    /\ UNCHANGED limiter
    /\ UNCHANGED <<credit_transactions, ai_interactions, now, op, local, trace,
                   users0>>

\* initialize_user_credits: doc_ref.set(user_data); return True
InitSet(p) ==
    /\ pc[p] = "init_set"
    /\ users' = [users EXCEPT ![op[p].user_id] =
           user_data(free_chat_credits_monthly, free_gen_ai_credits_monthly, now)]
    /\ baseline' = [baseline EXCEPT ![op[p].user_id] =
           [chatCredits |-> free_chat_credits_monthly,
            genAICredits |-> free_gen_ai_credits_monthly,
            ledger |-> Len(credit_transactions)]]
    /\ Goto(p, "init_return")
    /\ UNCHANGED limiter
    /\ UNCHANGED <<credit_transactions, ai_interactions, now, op, local, trace,
                   users0>>

\* new_credits = get_user_credits(current_user); return it, or 500 if it is None
InitReturn(p) ==
    /\ pc[p] = "init_return"
    /\ IF get_user_credits(op[p].user_id).found
       THEN Return(p, account(get_user_credits(op[p].user_id)))
       ELSE Return(p, http_error(500, "Failed to retrieve initialized user credits"))
    /\ UNCHANGED limiter
    /\ UNCHANGED <<users, credit_transactions, ai_interactions, now, op, local,
                   trace, users0, baseline>>

(***************************************************************************)
(* Collection "ai_agents": never written by the service.  agentA is        *)
(* public, agentO is private and owned by u1, agentT is private, owned by  *)
(* u2 and in u1's team, agentP is private and owned by u2, agentX has no   *)
(* document.                                                               *)
(***************************************************************************)
AgentIds == {"agentA", "agentO", "agentT", "agentP", "agentX"}

ai_agents ==
    [a \in AgentIds |->
        [exists |-> a # "agentX",
         isPublic |-> (a = "agentA"),
         ownerId |-> IF a = "agentO" THEN "u1" ELSE "u2"]]

\* get_agent_personality: None for a missing document
get_agent_personality(agent_id) ==
    [found |-> ai_agents[agent_id].exists,
     is_public |-> ai_agents[agent_id].exists /\ ai_agents[agent_id].isPublic,
     owner_id |-> IF ai_agents[agent_id].exists
                  THEN ai_agents[agent_id].ownerId ELSE ""]

\* check_user_agent_access without the team lookup (used to test the claims)
check_user_agent_access_no_team(user_id, agent_id) ==
    LET agent == get_agent_personality(agent_id)
    IN IF ~agent.found THEN FALSE
       ELSE IF agent.is_public THEN TRUE
       ELSE agent.owner_id = user_id

\* check_user_agent_access: the agent is read first; the user's document is read
\* only for a private agent of another owner
check_user_agent_access(user_id, agent_id) ==
    LET agent == get_agent_personality(agent_id)
    IN IF ~agent.found THEN FALSE
       ELSE IF agent.is_public THEN TRUE
       ELSE IF agent.owner_id = user_id THEN TRUE
       ELSE IF users[user_id].exists THEN agent_id \in users[user_id].aiAgentTeam
       ELSE FALSE

\* log_ai_interaction: the document added to "ai_interactions"
doc_data(user_id, agent_id, interaction_type, credits_used) ==
    [userId |-> user_id,
     type |-> interaction_type,
     agentId |-> agent_id,
     creditsUsed |-> credits_used]

\* the pre-check comparison with the bound moved by one (used to test the claims)
insufficient_off_by_one(credits, cost) ==
    credits + 1 < cost

\* the pre-check of both handlers: user_credits.<type>_credits < cost
insufficient(credits, cost) ==
    credits < cost

(***************************************************************************)
(* api/chat.py chat_call                                                   *)
(***************************************************************************)
\* a client posts /chat-call: current_user is the authenticated identity,
\* user_id and agent_id come from the payload
CallChat(p) ==
    \E cu \in Users, u \in Users, a \in AgentIds :
        Call(p, "chat_credits",
             [user_id |-> u,
              kind |-> "chat",
              agent_id |-> a,
              current_user |-> cu])

\* the first step of chat_call without the identity check (used to test the
\* claims)
ChatCreditsAnyCaller(p) ==
    /\ pc[p] = "chat_credits"
    /\ LET user_credits == get_user_credits(op[p].user_id)
       IN IF ~user_credits.found
          THEN /\ Return(p, http_error(404, "User not found"))
               /\ UNCHANGED <<local, trace>>
          ELSE /\ local' = [local EXCEPT ![p].available = user_credits.chat_credits]
               /\ trace' = [trace EXCEPT ![p].prechecked = TRUE]
               /\ IF insufficient(user_credits.chat_credits, chat_credit_cost)
                  THEN Return(p, [kind |-> "error",
                                  available |-> user_credits.chat_credits,
                                  status_code |-> 402,
                                  detail |-> "Insufficient chat credits",
                                  required |-> chat_credit_cost])
                  ELSE Goto(p, "chat_access")
    /\ UNCHANGED limiter
    /\ UNCHANGED <<users, credit_transactions, ai_interactions, now, op, users0,
                   baseline>>

\* chat.py 46-65: the identity check, get_user_credits and the balance pre-check
ChatCredits(p) ==
    /\ pc[p] = "chat_credits"
    /\ LET user_credits == get_user_credits(op[p].user_id)
       IN IF op[p].user_id # op[p].current_user
          THEN /\ Return(p, http_error(403, "User ID mismatch"))
               /\ UNCHANGED <<local, trace>>
          ELSE IF ~user_credits.found
          THEN /\ Return(p, http_error(404, "User not found"))
               /\ UNCHANGED <<local, trace>>
          ELSE /\ local' = [local EXCEPT ![p].available = user_credits.chat_credits]
               /\ trace' = [trace EXCEPT ![p].prechecked = TRUE]
               /\ IF insufficient(user_credits.chat_credits, chat_credit_cost)
                  THEN Return(p, [kind |-> "error",
                                  available |-> user_credits.chat_credits,
                                  status_code |-> 402,
                                  detail |-> "Insufficient chat credits",
                                  required |-> chat_credit_cost])
                  ELSE Goto(p, "chat_access")
    /\ UNCHANGED limiter
    /\ UNCHANGED <<users, credit_transactions, ai_interactions, now, op, users0,
                   baseline>>

\* an access check that records the agent it granted in the user's team
\* (used to test the claims)
ChatAccessRecording(p) ==
    /\ pc[p] = "chat_access"
    /\ IF ~check_user_agent_access(op[p].user_id, op[p].agent_id)
       THEN /\ Return(p, http_error(403, "Access denied to this AI agent"))
            /\ UNCHANGED <<trace, users>>
       ELSE IF ~get_agent_personality(op[p].agent_id).found
       THEN /\ Return(p, http_error(404, "AI agent not found"))
            /\ UNCHANGED <<trace, users>>
       ELSE /\ Goto(p, "chat_provider")
            /\ trace' = [trace EXCEPT ![p].provider = "pending"]
            /\ users' = [users EXCEPT ![op[p].user_id].aiAgentTeam =
                             @ \cup {op[p].agent_id}]
    /\ UNCHANGED limiter
    /\ UNCHANGED <<credit_transactions, ai_interactions, now, op, local,
                   users0, baseline>>

\* chat.py 67-93: check_user_agent_access, get_agent_personality, then the agent
\* is created and agent.call is entered (the provider call is in flight)
ChatAccess(p) ==
    /\ pc[p] = "chat_access"
    /\ IF ~check_user_agent_access(op[p].user_id, op[p].agent_id)
       THEN /\ Return(p, http_error(403, "Access denied to this AI agent"))
            /\ UNCHANGED trace
       ELSE IF ~get_agent_personality(op[p].agent_id).found
       THEN /\ Return(p, http_error(404, "AI agent not found"))
            /\ UNCHANGED trace
       ELSE /\ Goto(p, "chat_provider")
            /\ trace' = [trace EXCEPT ![p].provider = "pending"]
    /\ UNCHANGED limiter
    /\ UNCHANGED <<users, credit_transactions, ai_interactions, now, op, local,
                   users0, baseline>>

\* LangGraphAgent.call returns: the reply when the LLM call succeeded; when it
\* raised, the except clause of call returns the apology text and error metadata
agent_call(llm_ok) ==
    IF llm_ok
    THEN [response_text |-> "reply", raised |-> FALSE]
    ELSE [response_text |-> "apology", raised |-> FALSE]

\* the provider call of a chat request completes, successfully or not
ChatProvider(p) ==
    /\ pc[p] = "chat_provider"
    /\ \E llm_ok \in BOOLEAN :
          /\ trace' = [trace EXCEPT ![p].provider = IF llm_ok THEN "ok" ELSE "failed"]
          /\ IF agent_call(llm_ok).raised
             THEN /\ Return(p, http_error(500,
                             "Internal server error processing chat request"))
                  /\ UNCHANGED local
             ELSE /\ local' = [local EXCEPT ![p].response_text =
                                  agent_call(llm_ok).response_text]
                  /\ Goto(p, "chat_deduct")
    /\ UNCHANGED limiter
    /\ UNCHANGED <<users, credit_transactions, ai_interactions, now, op, users0,
                   baseline>>

\* a deduction step that goes on to the log and the response whatever
\* deduct_credits returned (used to test the claims)
ChatDeductLenient(p) ==
    /\ pc[p] = "chat_deduct"
    /\ LET r == update_credits(users[op[p].user_id], "chat", chat_credit_cost)
       IN /\ users' = [users EXCEPT ![op[p].user_id] = r.doc]
          /\ trace' = [trace EXCEPT
                 ![p].deduct_calls = @ + 1,
                 ![p].charged = @ + (users[op[p].user_id].chatCredits
                                       - r.doc.chatCredits)]
          /\ local' = [local EXCEPT ![p].success = r.success,
                                    ![p].remaining_credits = r.remaining]
          /\ Goto(p, "chat_log")
    /\ UNCHANGED limiter
    /\ UNCHANGED <<credit_transactions, ai_interactions, now, op, users0, baseline>>

\* a deduction that waits while another request of the same user is in its
\* provider call, as if that request held the balance document (used to test
\* the claims)
ChatDeductLocked(p) ==
    /\ pc[p] = "chat_deduct"
    /\ \A q \in Procs :
           (q # p /\ op[q].kind \in {"chat", "gen"}
                  /\ op[q].user_id = op[p].user_id)
               => trace[q].provider # "pending"
    /\ LET r == update_credits(users[op[p].user_id], "chat", chat_credit_cost)
       IN /\ users' = [users EXCEPT ![op[p].user_id] = r.doc]
          /\ trace' = [trace EXCEPT
                 ![p].deduct_calls = @ + 1,
                 ![p].charged = @ + (users[op[p].user_id].chatCredits
                                       - r.doc.chatCredits)]
          /\ local' = [local EXCEPT ![p].success = r.success,
                                    ![p].remaining_credits = r.remaining]
          /\ IF ~r.success
             THEN Return(p, http_error(402, "Failed to deduct credits"))
             ELSE Goto(p, "chat_log")
    /\ UNCHANGED limiter
    /\ UNCHANGED <<credit_transactions, ai_interactions, now, op, users0, baseline>>

\* chat.py 95-106: success, remaining_credits = deduct_credits(user_id, "chat",
\* chat_credit_cost); 402 if not success
ChatDeduct(p) ==
    /\ pc[p] = "chat_deduct"
    /\ LET r == update_credits(users[op[p].user_id], "chat", chat_credit_cost)
       IN /\ users' = [users EXCEPT ![op[p].user_id] = r.doc]
          /\ trace' = [trace EXCEPT
                 ![p].deduct_calls = @ + 1,
                 ![p].charged = @ + (users[op[p].user_id].chatCredits
                                       - r.doc.chatCredits)]
          /\ local' = [local EXCEPT ![p].success = r.success,
                                    ![p].remaining_credits = r.remaining]
          /\ IF ~r.success
             THEN Return(p, http_error(402, "Failed to deduct credits"))
             ELSE Goto(p, "chat_log")
    /\ UNCHANGED limiter
    /\ UNCHANGED <<credit_transactions, ai_interactions, now, op, users0, baseline>>

\* chat.py 108-128: log_ai_interaction, then the ChatResponse
ChatLog(p) ==
    /\ pc[p] = "chat_log"
    /\ ai_interactions' = Append(ai_interactions,
           doc_data(op[p].user_id, op[p].agent_id, "chat", chat_credit_cost))
    /\ trace' = [trace EXCEPT ![p].logged = @ + 1]
    /\ Return(p, [kind |-> "chat", status_code |-> 200,
                  message |-> local[p].response_text,
                  credits_remaining |-> local[p].remaining_credits])
    /\ UNCHANGED limiter
    /\ UNCHANGED <<users, credit_transactions, now, op, local, users0, baseline>>

(***************************************************************************)
(* api/generate.py generate_content                                        *)
(***************************************************************************)
MediaTypes == {"image", "music", "album_art"}
\* request.duration: 0 stands for an absent duration
Durations == {0, 30}

\* a cost of music that grows with the requested duration (used to test the
\* claims)
get_generation_cost_by_duration(media_type, duration) ==
    IF media_type = "image" THEN image_generation_cost
    ELSE IF media_type = "music"
    THEN IF duration > 0 THEN music_generation_cost + 1 ELSE music_generation_cost
    ELSE image_generation_cost

\* StabilityService.get_generation_cost
get_generation_cost(media_type, duration) ==
    IF media_type = "image" THEN image_generation_cost
    ELSE IF media_type = "music" THEN music_generation_cost
    ELSE image_generation_cost

CallGen(p) ==
    \E cu \in Users, u \in Users, m \in MediaTypes, d \in Durations :
        Call(p, "gen_credits",
             [user_id |-> u,
              kind |-> "gen",
              current_user |-> cu,
              media_type |-> m,
              duration |-> d])

\* generate.py 49-95: the identity check, the cost, get_user_credits, the balance
\* pre-check, then the provider call is entered
GenCredits(p) ==
    /\ pc[p] = "gen_credits"
    /\ LET credit_cost == get_generation_cost(op[p].media_type, op[p].duration)
           user_credits == get_user_credits(op[p].user_id)
       IN IF op[p].user_id # op[p].current_user
          THEN /\ Return(p, http_error(403, "User ID mismatch"))
               /\ UNCHANGED <<local, trace>>
          ELSE IF ~user_credits.found
          THEN /\ Return(p, http_error(404, "User not found"))
               /\ UNCHANGED <<local, trace>>
          ELSE /\ local' = [local EXCEPT ![p].available = user_credits.gen_ai_credits]
               /\ IF insufficient(user_credits.gen_ai_credits, credit_cost)
                  THEN /\ Return(p, [kind |-> "error",
                                     available |-> user_credits.gen_ai_credits,
                                     status_code |-> 402,
                                     detail |-> "Insufficient GenAI credits",
                                     required |-> credit_cost])
                       /\ trace' = [trace EXCEPT ![p].prechecked = TRUE]
                  ELSE /\ Goto(p, "gen_provider")
                       /\ trace' = [trace EXCEPT ![p].prechecked = TRUE,
                                                 ![p].provider = "pending"]
    /\ UNCHANGED limiter
    /\ UNCHANGED <<users, credit_transactions, ai_interactions, now, op, users0,
                   baseline>>

\* the response of generate.py 144-151
generation_failed(user_credits_gen_ai_credits) ==
    [kind |-> "gen",
     error |-> TRUE,
     credits_used |-> 0,
     credits_remaining |-> user_credits_gen_ai_credits,
     status |-> "failed",
     media_url |-> FALSE]

\* a provider step whose failure is swallowed, the handler going on to the
\* deduction as after a success (used to test the claims)
GenProviderSwallowed(p) ==
    /\ pc[p] = "gen_provider"
    /\ \E provider_ok \in BOOLEAN :
          trace' = [trace EXCEPT ![p].provider = IF provider_ok THEN "ok" ELSE "failed"]
    /\ Goto(p, "gen_deduct")
    /\ UNCHANGED limiter
    /\ UNCHANGED <<users, credit_transactions, ai_interactions, now, op, local,
                   users0, baseline>>

\* a provider step without the except clauses of generate_content: the
\* exception of the provider leaves the handler (used to test the claims)
GenProviderUncaught(p) ==
    /\ pc[p] = "gen_provider"
    /\ \E provider_ok \in BOOLEAN :
          /\ trace' = [trace EXCEPT ![p].provider =
                          IF provider_ok THEN "ok" ELSE "failed"]
          /\ IF provider_ok
             THEN Goto(p, "gen_deduct")
             ELSE Return(p, [kind |-> "unhandled"])
    /\ UNCHANGED limiter
    /\ UNCHANGED <<users, credit_transactions, ai_interactions, now, op, local,
                   users0, baseline>>

\* stability.generate_image / generate_music / generate_album_art returns or raises
GenProvider(p) ==
    /\ pc[p] = "gen_provider"
    /\ \E provider_ok \in BOOLEAN :
          /\ trace' = [trace EXCEPT ![p].provider =
                          IF provider_ok THEN "ok" ELSE "failed"]
          /\ IF provider_ok
             THEN Goto(p, "gen_deduct")
             ELSE Return(p, generation_failed(local[p].available))
    /\ UNCHANGED limiter
    /\ UNCHANGED <<users, credit_transactions, ai_interactions, now, op, local,
                   users0, baseline>>

\* generate.py 105-114: deduct_credits(user_id, "genai", credit_cost); a failure
\* is logged and the handler goes on
GenDeduct(p) ==
    /\ pc[p] = "gen_deduct"
    /\ LET credit_cost == get_generation_cost(op[p].media_type, op[p].duration)
           r == update_credits(users[op[p].user_id], "genai", credit_cost)
       IN /\ users' = [users EXCEPT ![op[p].user_id] = r.doc]
          /\ trace' = [trace EXCEPT
                 ![p].deduct_calls = @ + 1,
                 ![p].charged = @ + (users[op[p].user_id].genAICredits
                                       - r.doc.genAICredits)]
          /\ local' = [local EXCEPT ![p].success = r.success,
                                    ![p].remaining_credits = r.remaining]
          /\ Goto(p, "gen_log")
    /\ UNCHANGED limiter
    /\ UNCHANGED <<credit_transactions, ai_interactions, now, op, users0, baseline>>

\* generate.py 116-138: log_ai_interaction, then the GenerateResponse
GenLog(p) ==
    /\ pc[p] = "gen_log"
    /\ LET credit_cost == get_generation_cost(op[p].media_type, op[p].duration)
       IN /\ ai_interactions' = Append(ai_interactions,
                 doc_data(op[p].user_id, "stability-ai", "generation", credit_cost))
          /\ Return(p, [kind |-> "gen",
                        error |-> FALSE,
                        credits_used |-> credit_cost,
                        credits_remaining |-> local[p].remaining_credits,
                        status |-> "completed",
                        media_url |-> TRUE])
    /\ trace' = [trace EXCEPT ![p].logged = @ + 1]
    /\ UNCHANGED limiter
    /\ UNCHANGED <<users, credit_transactions, now, op, local, users0, baseline>>

(***************************************************************************)
(* The clock.                                                              *)
(***************************************************************************)
Tick ==
    /\ now < reset_period_days + MaxTicks
    /\ now' = now + 1
    /\ UNCHANGED limiter
    /\ UNCHANGED <<users, credit_transactions, ai_interactions, pc, op, local, ret,
                   trace, users0, baseline>>

(***************************************************************************)
(* Initial states: user u1 has an account (any balances up to MaxCredits,  *)
(* any tier, last reset thirty days or one day less ago), user u2 has      *)
(* none yet, no request has been made.                                     *)
(***************************************************************************)
InitialUsers(tiers, resets) ==
    { [u \in Users |->
          IF u = "u1"
          THEN [exists |-> TRUE, chatCredits |-> c, genAICredits |-> g,
                subscriptionTier |-> t, lastCreditReset |-> r,
                aiAgentTeam |-> {"agentT"}]
          ELSE NoDoc] :
      c \in 0..MaxCredits, g \in 0..MaxCredits, t \in tiers, r \in resets }

\* the result and history of a user for whom no check has been made: n counts
\* the checks, first is the time of the first one, before is the deque the last
\* check found, granted lists the timestamps of the checks that were allowed
NoRateRet == [remaining |-> 0,
              allowed |-> FALSE]
NoRateHist ==
    [n |-> 0, first |-> 0, current_time |-> 0, before |-> <<>>, granted |-> <<>>]

\* the remote addresses requests come from
Addresses == {"a1", "a2"}

\* before the first POST /chat-call: n counts the requests, rate_limited says
\* that the answer was 429, retry_after that it carried a retry-after hint,
\* entered that the body of chat_call was entered, user_allowed what
\* _check_rate_limit answers for the user of the request at its arrival
NoAppRet == [n |-> 0, rate_limited |-> FALSE, retry_after |-> FALSE,
             entered |-> FALSE, user_allowed |-> TRUE]

\* a limiter just constructed: user_requests is an empty defaultdict(deque)
InitLimiter ==
    /\ user_requests = [u \in Users |-> <<>>]
    /\ clock = 0
    /\ rate_ret = [u \in Users |-> NoRateRet]
    /\ rate_hist = [u \in Users |-> NoRateHist]
    /\ address_requests = [a \in Addresses |-> <<>>]
    /\ app_ret = NoAppRet
    /\ user_window = [u \in Users |-> <<>>]

InitRequests ==
    /\ InitLimiter
    /\ credit_transactions = <<>>
    /\ ai_interactions = <<>>
    /\ now = reset_period_days
    /\ pc = [p \in Procs |-> "idle"]
    /\ op = [p \in Procs |-> NoOp]
    /\ local = [p \in Procs |-> NoLocal]
    /\ ret = [p \in Procs |-> NoRet]
    /\ trace = [p \in Procs |-> NoTrace]
    /\ users0 = users
    /\ baseline = [u \in Users |->
           [chatCredits |-> users[u].chatCredits,
            genAICredits |-> users[u].genAICredits,
            ledger |-> 0]]

InitStore ==
    /\ users \in InitialUsers(Tiers, {0, 1})
    /\ InitRequests

(***************************************************************************)
(* SpecStore: NumProcs callers, each making one call of the balance store  *)
(* operations, in any interleaving.                                        *)
(***************************************************************************)
NextStore ==
    \/ \E p \in Procs :
          \/ CallDeduct(p) \/ DeductTxn(p)
          \/ CallAdd(p) \/ AddGet(p) \/ AddUpdate(p) \/ AddLog(p)
          \/ CallReset(p) \/ ResetGet(p) \/ ResetUpdate(p)
          \/ CallInitialize(p) \/ InitUserGet(p) \/ InitExists(p) \/ InitSet(p)
          \/ InitReturn(p)
    \/ Tick

SpecStore == InitStore /\ [][NextStore]_vars

(***************************************************************************)
(* Spec: NumProcs clients, each posting one chat or generation request,    *)
(* in any interleaving.  User u1 has a free-tier account, u2 has none.     *)
(***************************************************************************)
Init ==
    /\ users \in InitialUsers({"free"}, {reset_period_days})
    /\ InitRequests

Next ==
    \E p \in Procs :
        \/ CallChat(p) \/ ChatCredits(p) \/ ChatAccess(p) \/ ChatProvider(p)
        \/ ChatDeduct(p) \/ ChatLog(p)
        \/ CallGen(p) \/ GenCredits(p) \/ GenProvider(p) \/ GenDeduct(p)
        \/ GenLog(p)

Spec == Init /\ [][Next]_vars

(***************************************************************************)
(* Helpers of the properties.                                              *)
(***************************************************************************)
AllDone == \A p \in Procs : pc[p] = "done"

Quiescent == \A p \in Procs : pc[p] \in {"idle", "done"}

RECURSIVE SumOver(_, _)
\* the sum of f[x] over the finite set S
SumOver(f, S) ==
    IF S = {} THEN 0
    ELSE LET x == CHOOSE y \in S : TRUE
         IN f[x] + SumOver(f, S \ {x})

\* the deduct_credits calls that returned success / failure
DeductSucceeded == {p \in Procs : op[p].kind = "deduct" /\ pc[p] = "done" /\ ret[p].success}
DeductFailed == {p \in Procs : op[p].kind = "deduct" /\ pc[p] = "done" /\ ~ret[p].success}

\* every caller has made the call deduct_credits(u, t, 1) and it has returned
AllDeductedOne(u, t) ==
    /\ AllDone
    /\ \A p \in Procs :
          op[p] = [credit_type |-> t,
                   user_id |-> u,
                   kind |-> "deduct",
                   amount |-> 1]

(***************************************************************************)
(* C1 (SpecStore).  Race safety of deduct_credits: when a user's balance   *)
(* of one credit type is N and N+K (K > 0) deduct_credits calls of amount  *)
(* 1 have run concurrently, in whatever interleaving, exactly N of them    *)
(* returned success, exactly K returned failure (with remaining 0), and    *)
(* the final balance is 0.  Here N+K = NumProcs.                           *)
(***************************************************************************)
C1_RaceSafety ==
    \A u \in Users, t \in CreditTypes :
        ( /\ AllDeductedOne(u, t)
          /\ users0[u].exists
          /\ users0[u][field_name(t)] < NumProcs )
        => /\ Cardinality(DeductSucceeded) = users0[u][field_name(t)]
           /\ Cardinality(DeductFailed) = NumProcs - users0[u][field_name(t)]
           /\ \A p \in DeductFailed : ret[p].remaining = 0
           /\ users[u][field_name(t)] = 0

\* N = 1, K = NumProcs - 1: one call has succeeded, every other has failed
C1_Witness ==
    /\ AllDeductedOne("u1", "chat")
    /\ users0["u1"].chatCredits = 1
    /\ Cardinality(DeductSucceeded) = 1
    /\ Cardinality(DeductFailed) = NumProcs - 1

(***************************************************************************)
(* C2 (SpecStore).  No negative balance: in every reachable state, after   *)
(* any interleaving of deduct_credits, add_credits, reset_monthly_credits  *)
(* and initialize calls, chatCredits and genAICredits of every user        *)
(* are >= 0.                                                               *)
(***************************************************************************)
C2_NoNegativeBalance ==
    \A u \in Users :
        /\ users[u].chatCredits >= 0
        /\ users[u].genAICredits >= 0

\* a deduction emptied a balance while an add_credits call holds a value it read
C2_Witness ==
    \E p, q \in Procs :
        /\ op[p].kind = "deduct" /\ pc[p] = "done" /\ ret[p].success
        /\ ret[p].remaining = 0
        /\ op[q].kind = "add" /\ pc[q] = "add_update"
        /\ op[q].user_id = op[p].user_id /\ op[q].credit_type = op[p].credit_type
        /\ local[q].current_credits > 0

(***************************************************************************)
(* C4 (SpecStore).  No lost update between balance mutators: when only     *)
(* add_credits and deduct_credits calls have run, in whatever              *)
(* interleaving, the final balance equals the initial balance plus the     *)
(* amounts of the add_credits calls that returned True minus the amounts   *)
(* of the deduct_credits calls that returned success.                      *)
(***************************************************************************)
\* what the call of p has, by its own result, added to (u, t)
Applied(u, t) ==
    [p \in Procs |->
        IF pc[p] = "done" /\ op[p].kind \in {"add", "deduct"}
           /\ op[p].user_id = u /\ op[p].credit_type = t /\ ret[p].success
        THEN IF op[p].kind = "add" THEN op[p].amount ELSE 0 - op[p].amount
        ELSE 0]

C4_NoLostUpdate ==
    ( /\ AllDone
      /\ \A p \in Procs : op[p].kind \in {"add", "deduct"} )
    => \A u \in Users, t \in CreditTypes :
           users[u][field_name(t)] =
               users0[u][field_name(t)] + SumOver(Applied(u, t), Procs)

(***************************************************************************)
(* C10 (SpecStore).  Ledger replay: in every quiescent state, for each     *)
(* user and credit type, the signed amounts of the credit_transactions     *)
(* entries recorded since the user's last reset (or since the account's    *)
(* first balance) add up to the current balance minus the balance the      *)
(* reset left.                                                             *)
(***************************************************************************)
\* the signed amount of ledger entry i as far as it concerns (u, t)
Signed(u, t) ==
    [i \in DOMAIN credit_transactions |->
        IF credit_transactions[i].userId = u /\ credit_transactions[i].creditType = t
        THEN IF credit_transactions[i].type = "deduct"
             THEN 0 - credit_transactions[i].amount
             ELSE credit_transactions[i].amount
        ELSE 0]

C10_LedgerReplay ==
    Quiescent =>
        \A u \in Users, t \in CreditTypes :
            users[u].exists =>
                SumOver(Signed(u, t),
                        {i \in DOMAIN credit_transactions : i > baseline[u].ledger})
                    = users[u][field_name(t)] - baseline[u][field_name(t)]

(***************************************************************************)
(* Helpers of the properties about chat and generation requests.           *)
(***************************************************************************)
\* the cost of the request of p
Cost(p) ==
    IF op[p].kind = "chat" THEN chat_credit_cost
    ELSE get_generation_cost(op[p].media_type, op[p].duration)

\* the chat requests that have returned a ChatResponse / a 402
ChatSucceeded == {p \in Procs : op[p].kind = "chat" /\ pc[p] = "done" /\ ret[p].kind = "chat"}
ChatInsufficient ==
    {p \in Procs : op[p].kind = "chat" /\ pc[p] = "done" /\ ret[p].kind = "error"
                   /\ ret[p].status_code = 402}

\* every client has posted a chat request as user u, for an agent u may use, and
\* every request has returned
AllChatted(u) ==
    /\ AllDone
    /\ \A p \in Procs :
          /\ op[p].kind = "chat"
          /\ op[p].user_id = u /\ op[p].current_user = u
          /\ op[p].agent_id \in {"agentA", "agentO", "agentT"}

\* a 402 answer of the pre-check
IsPrecheckFailure(r) ==
    /\ r.kind = "error"
    /\ r.status_code = 402
    /\ r.detail \in {"Insufficient chat credits", "Insufficient GenAI credits"}

(***************************************************************************)
(* C3 (Spec).  Concurrent chat calls of one user against a chat balance of *)
(* exactly one chat cost end, in every interleaving of their pre-check,    *)
(* provider call and deduction steps, with exactly one success, an         *)
(* insufficient-credit failure (402) of every other call, and a final      *)
(* balance of 0.  Here the number of calls is NumProcs.                    *)
(***************************************************************************)
C3_ConcurrentChatOneCredit ==
    \A u \in Users :
        ( /\ AllChatted(u)
          /\ users0[u].exists
          /\ users0[u].chatCredits = chat_credit_cost )
        => /\ Cardinality(ChatSucceeded) = 1
           /\ Cardinality(ChatInsufficient) = NumProcs - 1
           /\ users[u].chatCredits = 0

\* both calls passed the pre-check; the loser was refused at its deduction
C3_Witness ==
    /\ AllChatted("u1")
    /\ users0["u1"].chatCredits = chat_credit_cost
    /\ Cardinality(ChatSucceeded) = 1
    /\ \E p \in Procs : ret[p] = http_error(402, "Failed to deduct credits")

(***************************************************************************)
(* C5 (Spec).  A chat provider failure is never billed: whenever the       *)
(* provider call of a chat request has failed, that request deducts no     *)
(* chat credits, logs no interaction, and its result is a failure.         *)
(***************************************************************************)
C5_ChatProviderFailureNotBilled ==
    \A p \in Procs :
        (op[p].kind = "chat" /\ trace[p].provider = "failed")
        => /\ trace[p].deduct_calls = 0
           /\ trace[p].charged = 0
           /\ trace[p].logged = 0
           /\ pc[p] = "done" => ret[p].kind = "error"

(***************************************************************************)
(* C6 (Spec).  A generation provider failure is folded into a result:      *)
(* whenever the provider call of a generation request has raised, the      *)
(* request has returned a result with status failed, the error and         *)
(* credits_used = 0, has made no deduct_credits call, has logged no        *)
(* interaction and has removed nothing from gen_ai_credits.                *)
(***************************************************************************)
C6_GenProviderFailureFolded ==
    \A p \in Procs :
        (op[p].kind = "gen" /\ trace[p].provider = "failed")
        => /\ pc[p] = "done"
           /\ ret[p].kind = "gen"
           /\ ret[p].status = "failed"
           /\ ret[p].error
           /\ ~ret[p].media_url
           /\ ret[p].credits_used = 0
           /\ trace[p].deduct_calls = 0
           /\ trace[p].charged = 0
           /\ trace[p].logged = 0

\* a generation failed while the account could pay for it
C6_Witness ==
    \E p \in Procs :
        /\ op[p].kind = "gen" /\ op[p].media_type = "music"
        /\ trace[p].provider = "failed"
        /\ pc[p] = "done"
        /\ users[op[p].user_id].genAICredits >= music_generation_cost

(***************************************************************************)
(* C7 (Spec).  Pre-check gate: for chat and generation requests alike, if  *)
(* the balance read at the pre-check is less than the request's cost, the  *)
(* request has failed with 402 reporting the required and the available    *)
(* amount, its provider was never invoked, and it has not touched the      *)
(* balance.                                                                *)
(***************************************************************************)
C7_PrecheckGate ==
    \A p \in Procs :
        (trace[p].prechecked /\ local[p].available < Cost(p))
        => /\ pc[p] = "done"
           /\ IsPrecheckFailure(ret[p])
           /\ ret[p].required = Cost(p)
           /\ ret[p].available = local[p].available
           /\ trace[p].provider = "none"
           /\ trace[p].deduct_calls = 0
           /\ trace[p].charged = 0

\* music (cost 2) asked for with one credit, and a chat asked for with none
C7_Witness ==
    \E p, q \in Procs :
        /\ op[p].kind = "gen" /\ op[p].media_type = "music"
        /\ trace[p].prechecked /\ local[p].available = 1
        /\ IsPrecheckFailure(ret[p])
        /\ op[q].kind = "chat"
        /\ trace[q].prechecked /\ local[q].available = 0
        /\ IsPrecheckFailure(ret[q])

(***************************************************************************)
(* C8 (Spec).  Billing order and multiplicity: within one chat or          *)
(* generation request deduct_credits is invoked at most once, and only     *)
(* after that request's provider call has completed successfully.          *)
(***************************************************************************)
C8_BillingOrder ==
    \A p \in Procs :
        /\ trace[p].deduct_calls <= 1
        /\ trace[p].deduct_calls >= 1 => trace[p].provider = "ok"

(***************************************************************************)
(* C9 (Spec).  For every chat request that returned success exactly one    *)
(* credit_transactions entry of type deduct is recorded for that user,     *)
(* with creditType chat and the chat cost as its amount: per user, there   *)
(* are as many such entries as successful chat requests.                   *)
(***************************************************************************)
C9_ChatDeductLedgerEntry ==
    \A u \in Users :
        Cardinality({i \in DOMAIN credit_transactions :
                        credit_transactions[i] =
                            transaction_data(u, "chat", chat_credit_cost, "deduct")})
            = Cardinality({p \in ChatSucceeded : op[p].user_id = u})

(***************************************************************************)
(* C11 (SpecStore).  A failed conditional deduct is a value and has no     *)
(* effect: whenever deduct_credits runs for an existing user with an       *)
(* amount greater than the current balance of that credit type, it         *)
(* returns (False, current balance) and the "users" collection is left     *)
(* exactly as it was.                                                      *)
(***************************************************************************)
C11_FailedDeductNoEffect ==
    [][\A p \in Procs :
          ( /\ pc[p] = "deduct_txn"
            /\ pc'[p] = "done"
            /\ users[op[p].user_id].exists
            /\ op[p].amount > users[op[p].user_id][field_name(op[p].credit_type)] )
          => /\ users' = users
             /\ ret'[p] = [kind |-> "deduct", success |-> FALSE,
                           remaining |->
                               users[op[p].user_id][field_name(op[p].credit_type)]]
      ]_vars

\* deduct_credits(u1, t, 2) on a balance of 1 has returned (False, 1)
C11_Witness ==
    \E p \in Procs :
        /\ op[p].kind = "deduct" /\ pc[p] = "done"
        /\ op[p].user_id = "u1" /\ op[p].amount = 2
        /\ users0["u1"][field_name(op[p].credit_type)] = 1
        /\ ret[p] = [kind |-> "deduct", success |-> FALSE, remaining |-> 1]
        /\ users = users0

(***************************************************************************)
(* C12 (Spec).  Strict chat policy: when the provider call of a chat       *)
(* request succeeded and its deduct_credits call then failed, the request  *)
(* has ended with the 402 "Failed to deduct credits" error (which carries  *)
(* no generated text), has logged no interaction and has removed nothing   *)
(* from the balance.                                                       *)
(***************************************************************************)
C12_StrictChat ==
    \A p \in Procs :
        ( /\ op[p].kind = "chat"
          /\ trace[p].provider = "ok"
          /\ trace[p].deduct_calls >= 1
          /\ ~local[p].success )
        => /\ pc[p] = "done"
           /\ ret[p] = http_error(402, "Failed to deduct credits")
           /\ trace[p].logged = 0
           /\ trace[p].charged = 0

\* two chats passed the pre-check on one credit; the provider answered both; the
\* second deduction was refused
C12_Witness ==
    \E p, q \in Procs :
        /\ p # q
        /\ op[p].kind = "chat" /\ op[q].kind = "chat"
        /\ trace[p].provider = "ok" /\ trace[q].provider = "ok"
        /\ local[p].available = chat_credit_cost
        /\ trace[p].deduct_calls = 1 /\ ~local[p].success
        /\ ret[p] = http_error(402, "Failed to deduct credits")
        /\ pc[q] = "done" /\ ret[q].kind = "chat"
        /\ users["u1"].chatCredits = 0

(***************************************************************************)
(* C13 (Spec).  Lenient generation policy: when the provider call of a     *)
(* generation request succeeded and its deduct_credits call then failed,   *)
(* the request returns the generated media (status completed, a media_url) *)
(* and reports credits_used = 0, and it has removed nothing from the       *)
(* balance.                                                                *)
(***************************************************************************)
C13_LenientGeneration ==
    \A p \in Procs :
        ( /\ op[p].kind = "gen"
          /\ trace[p].provider = "ok"
          /\ trace[p].deduct_calls >= 1
          /\ ~local[p].success
          /\ pc[p] = "done" )
        => /\ ret[p].kind = "gen"
           /\ ret[p].status = "completed"
           /\ ret[p].media_url
           /\ ret[p].credits_used = 0
           /\ trace[p].charged = 0

(***************************************************************************)
(* Storage failures.  A Firestore request of a chat or generation handler  *)
(* may raise because storage is unavailable.  FirestoreService catches the *)
(* exception inside each method: get_user_credits and                      *)
(* get_agent_personality return None, check_user_agent_access returns      *)
(* False, deduct_credits returns (False, 0) and nothing is committed.      *)
(***************************************************************************)
\* chat.py 54-59 when get_user_credits raises inside (firestore_service.py 66-68)
ChatCreditsUnavailable(p) ==
    /\ pc[p] = "chat_credits"
    /\ op[p].user_id = op[p].current_user
    /\ trace' = [trace EXCEPT ![p].storage_failed = TRUE]
    /\ Return(p, http_error(404, "User not found"))
    /\ UNCHANGED limiter
    /\ UNCHANGED <<users, credit_transactions, ai_interactions, now, op, local,
                   users0, baseline>>

\* chat.py 67-84 when a read of check_user_agent_access raises (it returns False,
\* firestore_service.py 238-240), or when the check passed and the read of
\* get_agent_personality raises (it returns None, firestore_service.py 200-202)
ChatAccessUnavailable(p) ==
    /\ pc[p] = "chat_access"
    /\ \E failed_read \in {"check_user_agent_access", "get_agent_personality"} :
          /\ failed_read = "get_agent_personality"
                => check_user_agent_access(op[p].user_id, op[p].agent_id)
          /\ Return(p, IF failed_read = "check_user_agent_access"
                       THEN http_error(403, "Access denied to this AI agent")
                       ELSE http_error(404, "AI agent not found"))
    /\ trace' = [trace EXCEPT ![p].storage_failed = TRUE]
    /\ UNCHANGED limiter
    /\ UNCHANGED <<users, credit_transactions, ai_interactions, now, op, local,
                   users0, baseline>>

\* chat.py 95-106 when deduct_credits raises inside (firestore_service.py 166-168)
ChatDeductUnavailable(p) ==
    /\ pc[p] = "chat_deduct"
    /\ trace' = [trace EXCEPT ![p].deduct_calls = @ + 1,
                              ![p].storage_failed = TRUE]
    /\ local' = [local EXCEPT ![p].success = FALSE,
                              ![p].remaining_credits = 0]
    /\ Return(p, http_error(402, "Failed to deduct credits"))
    /\ UNCHANGED limiter
    /\ UNCHANGED <<users, credit_transactions, ai_interactions, now, op, users0,
                   baseline>>

\* generate.py 63-68 when get_user_credits raises inside
GenCreditsUnavailable(p) ==
    /\ pc[p] = "gen_credits"
    /\ op[p].user_id = op[p].current_user
    /\ trace' = [trace EXCEPT ![p].storage_failed = TRUE]
    /\ Return(p, http_error(404, "User not found"))
    /\ UNCHANGED limiter
    /\ UNCHANGED <<users, credit_transactions, ai_interactions, now, op, local,
                   users0, baseline>>

\* generate.py 105-114 when deduct_credits raises inside: success is False,
\* remaining_credits is 0, the failure is logged and the handler goes on
GenDeductUnavailable(p) ==
    /\ pc[p] = "gen_deduct"
    /\ trace' = [trace EXCEPT ![p].deduct_calls = @ + 1,
                              ![p].storage_failed = TRUE]
    /\ local' = [local EXCEPT ![p].success = FALSE,
                              ![p].remaining_credits = 0]
    /\ Goto(p, "gen_log")
    /\ UNCHANGED limiter
    /\ UNCHANGED <<users, credit_transactions, ai_interactions, now, op, users0,
                   baseline>>

(***************************************************************************)
(* SpecFault: the requests of Spec, with storage failures.                 *)
(***************************************************************************)
NextFault ==
    \/ Next
    \/ \E p \in Procs :
          \/ ChatCreditsUnavailable(p) \/ ChatAccessUnavailable(p)
          \/ ChatDeductUnavailable(p)
          \/ GenCreditsUnavailable(p) \/ GenDeductUnavailable(p)

SpecFault == Init /\ [][NextFault]_vars

(***************************************************************************)
(* C14 (SpecFault).  Storage failure is fatal: a chat or generation        *)
(* request one of whose balance-store operations (balance read, access     *)
(* lookup, deduct) failed because storage was unavailable ends with an     *)
(* internal error (500); it does not end with 404, 403 or 402, and it      *)
(* does not return provider output.                                        *)
(***************************************************************************)
C14_StorageFailureFatal ==
    \A p \in Procs :
        (trace[p].storage_failed /\ pc[p] = "done")
        => /\ ret[p].kind = "error"
           /\ ret[p].status_code = 500

(***************************************************************************)
(* C15 (SpecStore).  Concurrent initialization: when every caller has      *)
(* called initialize for the same user, who had no account, then in every  *)
(* interleaving of the existence checks and the create steps the user's    *)
(* document (there is one document per user id), once it exists, holds the *)
(* free-tier grant for both balances, never a doubled one; every call      *)
(* that has returned has returned an account with these balances; and      *)
(* when all have returned the document exists.                             *)
(***************************************************************************)
\* every caller has called initialize for user u
AllInitializing(u) ==
    \A p \in Procs : op[p] = [user_id |-> u,
                              kind |-> "initialize"]

C15_ConcurrentInitialize ==
    \A u \in Users :
        (AllInitializing(u) /\ ~users0[u].exists)
        => /\ users[u].exists
                => /\ users[u].chatCredits = free_chat_credits_monthly
                   /\ users[u].genAICredits = free_gen_ai_credits_monthly
                   /\ users[u].subscriptionTier = "free"
           /\ \A p \in Procs :
                 pc[p] = "done"
                 => /\ ret[p].kind = "account"
                    /\ ret[p].chat_credits = free_chat_credits_monthly
                    /\ ret[p].gen_ai_credits = free_gen_ai_credits_monthly
                    /\ ret[p].subscription_tier = "free"
           /\ AllDone => users[u].exists

\* both calls found no document; one has created it and returned, the other is
\* about to create it again
C15_Witness ==
    \E p, q \in Procs :
        /\ AllInitializing("u2")
        /\ pc[p] = "done" /\ ret[p].kind = "account"
        /\ pc[q] = "init_set"
        /\ users["u2"].exists

(***************************************************************************)
(* C16 (SpecStore).  Sequential idempotence of initialize: a call of       *)
(* initialize that finds the user's account, whatever its balances, tier   *)
(* and last reset, returns that account in the same step and leaves the    *)
(* "users" collection unchanged; and a call that runs with no other call   *)
(* started changes a user's document only by creating one that was absent. *)
(***************************************************************************)
C16_InitializeIdempotent ==
    [][\A p \in Procs :
          op[p].kind = "initialize"
          => /\ ( /\ pc[p] = "init_user_get"
                  /\ pc'[p] # pc[p]
                  /\ users[op[p].user_id].exists )
                => /\ users' = users
                   /\ pc'[p] = "done"
                   /\ ret'[p] = account(get_user_credits(op[p].user_id))
             /\ ( /\ \A q \in Procs \ {p} : pc[q] = "idle" /\ pc'[q] = "idle"
                  /\ users' # users )
                => /\ ~users[op[p].user_id].exists
                   /\ users'[op[p].user_id].exists
      ]_vars

\* initialize has returned the account of u1 as a deduction had left it
C16_Witness ==
    \E p, q \in Procs :
        /\ op[q].kind = "deduct" /\ pc[q] = "done" /\ ret[q].success
        /\ op[q].user_id = "u1" /\ op[q].credit_type = "chat"
        /\ op[p].kind = "initialize" /\ op[p].user_id = "u1" /\ pc[p] = "done"
        /\ ret[p].kind = "account"
        /\ ret[p].chat_credits = users0["u1"].chatCredits - op[q].amount
        /\ users["u1"].chatCredits = ret[p].chat_credits

(***************************************************************************)
(* C17 (Spec).  Access policy: for every user id and agent id,             *)
(* check_user_agent_access is true if and only if the agent exists and is  *)
(* public, or is owned by the user, or is in the user's aiAgentTeam; it is *)
(* false for an agent without a document.  Accordingly a chat request gets *)
(* past the access check only with access, and is answered 403 "Access     *)
(* denied" only without.                                                   *)
(***************************************************************************)
\* the policy as stated
has_access(user_id, agent_id) ==
    /\ ai_agents[agent_id].exists
    /\ \/ ai_agents[agent_id].isPublic
       \/ ai_agents[agent_id].ownerId = user_id
       \/ agent_id \in users[user_id].aiAgentTeam

C17_AccessPolicy ==
    /\ \A u \in Users, a \in AgentIds :
          check_user_agent_access(u, a) = has_access(u, a)
    /\ ~check_user_agent_access("u1", "agentX")
    /\ \A p \in Procs :
          op[p].kind = "chat"
          => /\ trace[p].provider # "none"
                   => has_access(op[p].user_id, op[p].agent_id)
             /\ ret[p] = http_error(403, "Access denied to this AI agent")
                   => ~has_access(op[p].user_id, op[p].agent_id)

\* u1 was admitted to agentT through the team and refused agentP
C17_Witness ==
    \E p, q \in Procs :
        /\ op[p].kind = "chat" /\ op[p].user_id = "u1" /\ op[p].agent_id = "agentT"
        /\ trace[p].provider # "none"
        /\ op[q].kind = "chat" /\ op[q].user_id = "u1" /\ op[q].agent_id = "agentP"
        /\ ret[q] = http_error(403, "Access denied to this AI agent")

(***************************************************************************)
(* middleware/rate_limit.py RateLimitMiddleware._check_rate_limit          *)
(*                                                                         *)
(* The coroutine contains no await: on the event loop a call runs from     *)
(* its first line to its return without another call in between, so the   *)
(* checks of concurrent requests happen one after another, in any order,   *)
(* possibly at the same instant.  One step is one call.  Time is counted   *)
(* in whole seconds; the instants at which checks are made are those of    *)
(* RateTimes.                                                              *)
(***************************************************************************)
RateTimes == {0, 1} \cup ((window_seconds - 1)..MaxSeconds)

\* the eviction loop, dropping the whole deque once its head is old (used to
\* test the claims)
popleft_all(user_queue, window_start) ==
    IF user_queue # <<>> /\ Head(user_queue) < window_start
    THEN <<>>
    ELSE user_queue

\* no eviction at all (used to test the claims)
popleft_never(user_queue, window_start) == user_queue

RECURSIVE popleft_old(_, _)
\* while user_queue and user_queue[0] < window_start: user_queue.popleft()
popleft_old(user_queue, window_start) ==
    IF user_queue # <<>> /\ Head(user_queue) < window_start
    THEN popleft_old(Tail(user_queue), window_start)
    ELSE user_queue

\* the limit test with the comparison moved by one (used to test the claims)
over_limit_off_by_one(request_count) ==
    request_count > rate_limit_per_minute

\* request_count >= self.settings.rate_limit_per_minute
over_limit(request_count) ==
    request_count >= rate_limit_per_minute

\* remaining computed before the append (used to test the claims)
remaining_before_append(user_queue) ==
    rate_limit_per_minute - (Len(user_queue) - 1)

\* remaining = self.settings.rate_limit_per_minute - len(user_queue), after the
\* append
remaining_requests(user_queue) ==
    rate_limit_per_minute - Len(user_queue)

\* _check_rate_limit(user_id) at current_time: the deque it leaves and the
\* (allowed, remaining) it returns
check_rate_limit(user_queue, current_time) ==
    LET cleaned == popleft_old(user_queue, current_time - window_seconds)
    IN IF over_limit(Len(cleaned))
       THEN [remaining |-> 0,
             allowed |-> FALSE,
             user_queue |-> cleaned]
       ELSE [remaining |-> remaining_requests(Append(cleaned, current_time)),
             allowed |-> TRUE,
             user_queue |-> Append(cleaned, current_time)]

\* a request of user u reaches the limiter: one call of _check_rate_limit
CheckRateLimit(u) ==
    /\ SumOver([v \in Users |-> rate_hist[v].n], Users) < MaxChecks
    /\ LET r == check_rate_limit(user_requests[u], clock)
       IN /\ user_requests' = [user_requests EXCEPT ![u] = r.user_queue]
          /\ rate_ret' = [rate_ret EXCEPT ![u] =
                 [remaining |-> r.remaining,
                  allowed |-> r.allowed]]
          /\ rate_hist' = [rate_hist EXCEPT ![u] =
                 [n |-> @.n + 1,
                  first |-> IF @.n = 0 THEN clock ELSE @.first,
                  current_time |-> clock,
                  before |-> user_requests[u],
                  granted |-> IF r.allowed THEN Append(@.granted, clock)
                              ELSE @.granted]]
    /\ UNCHANGED <<clock, address_requests, app_ret, user_window>>
    /\ UNCHANGED metering

\* time passes, to a later instant of RateTimes
RateTick ==
    /\ \E t \in RateTimes :
          /\ t > clock
          /\ clock' = t
    /\ UNCHANGED <<user_requests, rate_ret, rate_hist, address_requests, app_ret,
                   user_window>>
    /\ UNCHANGED metering

(***************************************************************************)
(* SpecRate: requests of the users reach a limiter that starts empty.      *)
(***************************************************************************)
InitRate ==
    /\ users = [u \in Users |-> NoDoc]
    /\ InitRequests

NextRate ==
    \/ \E u \in Users : CheckRateLimit(u)
    \/ RateTick

SpecRate == InitRate /\ [][NextRate]_vars

(***************************************************************************)
(* Helpers of the properties about the rate limiter.                       *)
(***************************************************************************)
\* the number of checks allowed for u before its last check
prior_grants(u) ==
    Len(rate_hist[u].granted) - (IF rate_ret[u].allowed THEN 1 ELSE 0)

\* the seconds between the first check of u and its last check
elapsed(u) ==
    rate_hist[u].current_time - rate_hist[u].first

\* the number of timestamps the last check of u found that were not older than
\* the window
count_in_window(u) ==
    Cardinality({i \in DOMAIN rate_hist[u].before :
                    rate_hist[u].before[i] >=
                        rate_hist[u].current_time - window_seconds})

\* the three cases of the rate window, the third for a check made at least
\* min_elapsed seconds after the first
RateWindowFrom(min_elapsed) ==
    \A u \in Users :
        rate_hist[u].n >= 1
        => /\ (rate_hist[u].n <= rate_limit_per_minute /\ elapsed(u) < window_seconds)
                => rate_ret[u].allowed
           /\ (rate_hist[u].n = rate_limit_per_minute + 1
                  /\ elapsed(u) < window_seconds)
                => ~rate_ret[u].allowed
           /\ ( /\ rate_hist[u].n > rate_limit_per_minute
                /\ prior_grants(u) = rate_limit_per_minute
                /\ rate_hist[u].granted[rate_limit_per_minute] - rate_hist[u].first
                       < window_seconds
                /\ elapsed(u) >= min_elapsed )
                => rate_ret[u].allowed

(***************************************************************************)
(* C18 (SpecRate), as stated.  Rate window: for one user starting from an  *)
(* empty window, the first limit checks made within a 60-second window are *)
(* all allowed, the (limit+1)-th check within that window is denied, and a *)
(* check made once 60 seconds have elapsed since the first one is allowed  *)
(* again.                                                                  *)
(***************************************************************************)
C18_RateWindowAsStated ==
    RateWindowFrom(window_seconds)

(***************************************************************************)
(* C18 (SpecRate), amended.  The same, the last case for a check made once *)
(* more than 60 seconds have elapsed since the first one: a timestamp      *)
(* exactly 60 seconds old is still in the window.                          *)
(***************************************************************************)
C18_RateWindow ==
    RateWindowFrom(window_seconds + 1)

\* limit checks within a second, a denied one, and 61 seconds after the first
\* check one that is allowed
C18_Witness ==
    /\ rate_hist["u1"].n >= rate_limit_per_minute + 2
    /\ prior_grants("u1") = rate_limit_per_minute
    /\ rate_hist["u1"].granted[rate_limit_per_minute] - rate_hist["u1"].first
           < window_seconds
    /\ elapsed("u1") = window_seconds + 1
    /\ rate_ret["u1"].allowed

(***************************************************************************)
(* C19 (SpecRate).  Result of a check: with count the number of the user's *)
(* timestamps left in the window after eviction, the check is allowed      *)
(* exactly when count < limit; an allowed check returns remaining =        *)
(* limit - count - 1 and has appended the current timestamp to the deque;  *)
(* a denied check returns remaining = 0 and has appended nothing;          *)
(* remaining is always in 0..limit-1.                                      *)
(***************************************************************************)
C19_RateResult ==
    \A u \in Users :
        rate_hist[u].n >= 1
        => /\ rate_ret[u].allowed = (count_in_window(u) < rate_limit_per_minute)
           /\ rate_ret[u].allowed
                => /\ rate_ret[u].remaining =
                          rate_limit_per_minute - count_in_window(u) - 1
                   /\ Len(user_requests[u]) = count_in_window(u) + 1
                   /\ user_requests[u][Len(user_requests[u])] =
                          rate_hist[u].current_time
           /\ ~rate_ret[u].allowed
                => /\ rate_ret[u].remaining = 0
                   /\ Len(user_requests[u]) = count_in_window(u)
           /\ rate_ret[u].remaining \in 0..(rate_limit_per_minute - 1)

\* a check that found a full deque, evicted one old timestamp and took the slot
C19_Witness ==
    /\ Len(rate_hist["u1"].before) = rate_limit_per_minute
    /\ count_in_window("u1") = rate_limit_per_minute - 1
    /\ rate_ret["u1"].allowed
    /\ rate_ret["u1"].remaining = 0

(***************************************************************************)
(* C20 (SpecRate).  Rate limiter under concurrency: in whatever order the  *)
(* checks of a user's concurrent requests run, the number of allowed       *)
(* checks whose timestamps lie in one window of 60 seconds (both ends      *)
(* included) never exceeds the limit.  The windows examined begin at the   *)
(* instants of RateTimes, where every timestamp lies: a window beginning   *)
(* in between holds no more than the one beginning at the next instant.    *)
(***************************************************************************)
C20_RateConcurrent ==
    \A u \in Users :
        \A w \in RateTimes :
            Cardinality({i \in DOMAIN rate_hist[u].granted :
                            /\ rate_hist[u].granted[i] >= w
                            /\ rate_hist[u].granted[i] <= w + window_seconds})
                <= rate_limit_per_minute

\* limit+1 requests of u1 were checked at the same instant: the last was denied
C20_Witness ==
    /\ rate_hist["u1"].n = rate_limit_per_minute + 1
    /\ elapsed("u1") = 0
    /\ Len(rate_hist["u1"].granted) = rate_limit_per_minute
    /\ ~rate_ret["u1"].allowed
    /\ Len(user_requests["u2"]) > 0


(***************************************************************************)
(* main.py: the way of a POST /chat-call request to the body of chat_call. *)
(*                                                                         *)
(* main.py registers the CORS middleware only: the lines that add          *)
(* AuthMiddleware and RateLimitMiddleware are commented out (main.py:103-  *)
(* 104), so RateLimitMiddleware.dispatch and _check_rate_limit are never   *)
(* called by the application.  What stands before the body of chat_call is *)
(* the decorator @rate_limit_check(5) (chat.py:29), that is slowapi's      *)
(* limiter.limit("5/minute") keyed by get_remote_address (rate_limit.py:   *)
(* 127-141), answered on refusal by slowapi's own handler (main.py:108),   *)
(* not by handle_rate_limit_exceeded.  slowapi is a library: the model     *)
(* takes from it that it counts the hits of one remote address and refuses *)
(* a request that finds 5 hits of its address within the last minute, and  *)
(* that its answer is 429 without a retry-after hint (the Limiter is built *)
(* without headers).                                                       *)
(***************************************************************************)
MaxRequests == 6

\* @rate_limit_check(5)
chat_call_requests_per_minute == 5

\* the hits of an address that still count at current_time
RECURSIVE hits_within_minute(_, _)
hits_within_minute(hits, current_time) ==
    IF hits # <<>> /\ Head(hits) <= current_time - window_seconds
    THEN hits_within_minute(Tail(hits), current_time)
    ELSE hits

\* a POST /chat-call of user u arrives from remote address a: the decorator
\* refuses it or the body of chat_call is entered.  user_window records what
\* _check_rate_limit would have done with the requests of u.
AppChatCall(u, a) ==
    /\ app_ret.n < MaxRequests
    /\ LET verdict == check_rate_limit(user_window[u], clock)
           hits == hits_within_minute(address_requests[a], clock)
       IN /\ user_window' = [user_window EXCEPT ![u] = verdict.user_queue]
          /\ IF Len(hits) >= chat_call_requests_per_minute
             THEN /\ address_requests' = [address_requests EXCEPT ![a] = hits]
                  /\ app_ret' = [n |-> app_ret.n + 1, rate_limited |-> TRUE,
                                 retry_after |-> FALSE, entered |-> FALSE,
                                 user_allowed |-> verdict.allowed]
             ELSE /\ address_requests' =
                         [address_requests EXCEPT ![a] = Append(hits, clock)]
                  /\ app_ret' = [n |-> app_ret.n + 1, rate_limited |-> FALSE,
                                 retry_after |-> FALSE, entered |-> TRUE,
                                 user_allowed |-> verdict.allowed]
    /\ UNCHANGED <<user_requests, clock, rate_ret, rate_hist>>
    /\ UNCHANGED metering

(***************************************************************************)
(* SpecApp: POST /chat-call requests of the users arrive at the            *)
(* application from two remote addresses.                                  *)
(***************************************************************************)
InitApp ==
    /\ users = [u \in Users |-> NoDoc]
    /\ InitRequests

NextApp ==
    \/ \E u \in Users, a \in Addresses : AppChatCall(u, a)
    \/ RateTick

SpecApp == InitApp /\ [][NextApp]_vars

\* C21: a chat request that the per-user rate limiter denies is answered with
\* 429 and a retry-after hint, and the body of chat_call is not entered for it
\* (so it reads no balance and invokes no provider).
C21_RateLimitDenialFailsFast ==
    (app_ret.n > 0 /\ ~app_ret.user_allowed) =>
        /\ app_ret.rate_limited
        /\ app_ret.retry_after
        /\ ~app_ret.entered


(***************************************************************************)
(* Monthly reset.                                                          *)
(***************************************************************************)
\* the allotment of a tier: settings for free (config/settings.py:42-43), the
\* figures of reset_monthly_credits for premium and pro (utils/credits.py:46-51)
chat_allotment(tier) ==
    CASE tier = "free" -> free_chat_credits_monthly
      [] tier = "pro" -> pro_chat_credits
      [] tier = "premium" -> premium_chat_credits

gen_allotment(tier) ==
    CASE tier = "free" -> free_gen_ai_credits_monthly
      [] tier = "pro" -> pro_gen_credits
      [] tier = "premium" -> premium_gen_credits

\* the step of request p in which it leaves position at
Leaves(p, at) == pc[p] = at /\ pc'[p] # at

\* the user document has lastCreditReset at least thirty days before now
ResetDue(u) ==
    users[u].exists /\ now - users[u].lastCreditReset >= reset_period_days

C23_MonthlyResetIdempotent ==
    [][\A p \in Procs :
          LET u == op[p].user_id
          IN /\ (Leaves(p, "reset_get") /\ users[u].exists /\ ~ResetDue(u)) =>
                    /\ pc'[p] = "done"
                    /\ ret'[p] = [kind |-> "reset", success |-> FALSE]
                    /\ users' = users
             /\ Leaves(p, "reset_update") => ~ResetDue(u)']_vars

\* a user due for a reset from the start: one call has reset the account, the
\* call after it has returned false, and the balances are those of the reset
C23_Witness ==
    \E p, q \in Procs :
        /\ p # q
        /\ users0["u1"].lastCreditReset = 0
        /\ users0["u1"].subscriptionTier = "premium"
        /\ pc[p] = "done" /\ op[p].kind = "reset" /\ op[p].user_id = "u1"
        /\ ret[p].success
        /\ pc[q] = "done" /\ op[q].kind = "reset" /\ op[q].user_id = "u1"
        /\ ~ret[q].success
        /\ users["u1"].chatCredits = premium_chat_credits
        /\ users["u1"].genAICredits = premium_gen_credits


(***************************************************************************)
(* The gates of the handlers.                                              *)
(***************************************************************************)
\* request p is a chat or generation request whose payload claims another
\* user than the authenticated caller
IdentityMismatch(p) ==
    /\ op[p].kind \in {"chat", "gen"}
    /\ op[p].user_id # op[p].current_user

\* C24: a chat or generation request whose authenticated caller differs from
\* the user_id of its payload ends with 403 "User ID mismatch" in its first
\* step: it never reads the balance, checks access, calls the provider,
\* deducts or logs for the claimed user, whose document it leaves as it was.
C24_IdentityMismatchForbidden ==
    \A p \in Procs :
        IdentityMismatch(p) =>
            /\ pc[p] \in {"chat_credits", "gen_credits", "done"}
            /\ trace[p] = NoTrace
            /\ local[p] = NoLocal
            /\ pc[p] = "done" => ret[p] = http_error(403, "User ID mismatch")
            /\ (\A q \in Procs : op[q].kind = "none" \/ IdentityMismatch(q)) =>
                   /\ users = users0
                   /\ ai_interactions = <<>>

\* caller u2 has claimed to be the funded user u1, once for a chat with the
\* public agent and once for a generation, and both requests were refused
C24_Witness ==
    \E p, q \in Procs :
        /\ pc[p] = "done" /\ op[p].kind = "chat" /\ op[p].agent_id = "agentA"
        /\ op[p].current_user = "u2" /\ op[p].user_id = "u1"
        /\ pc[q] = "done" /\ op[q].kind = "gen"
        /\ op[q].current_user = "u2" /\ op[q].user_id = "u1"
        /\ users["u1"].chatCredits = MaxCredits
        /\ users["u1"].genAICredits = MaxCredits
        /\ ret[p] = http_error(403, "User ID mismatch")
        /\ ret[q] = http_error(403, "User ID mismatch")


\* request p is a chat request of an existing user, by that user, for an
\* agent that exists and that the access policy denies: not public, not owned
\* by the user, not in the user's team
AccessDenied(p) ==
    /\ op[p].kind = "chat"
    /\ op[p].user_id = op[p].current_user
    /\ users0[op[p].user_id].exists
    /\ ai_agents[op[p].agent_id].exists
    /\ ~has_access(op[p].user_id, op[p].agent_id)

\* C25: a chat request that the access policy denies fails with Forbidden,
\* its provider is never invoked and it takes nothing from the user's balance.
C25_AccessDenialFailsFast ==
    \A p \in Procs :
        AccessDenied(p) =>
            /\ trace[p].provider = "none"
            /\ trace[p].deduct_calls = 0
            /\ trace[p].charged = 0
            /\ pc[p] = "done" =>
                   ret[p] = http_error(403, "Access denied to this AI agent")

\* the part of it that holds: whatever the answer, a denied request never
\* reaches the provider or the deduction, and a denied request that had the
\* credits for the pre-check is answered 403
C25_DeniedNeverServed ==
    \A p \in Procs :
        AccessDenied(p) =>
            /\ trace[p].provider = "none"
            /\ trace[p].deduct_calls = 0
            /\ trace[p].charged = 0
            /\ (pc[p] = "done" /\ local[p].available >= chat_credit_cost) =>
                   ret[p] = http_error(403, "Access denied to this AI agent")

\* C26: the access check comes before the balance pre-check: a chat request
\* that is access-denied and whose user has fewer credits than the chat cost is
\* answered Forbidden (403), not InsufficientCredits (402).
C26_AccessBeforeBalance ==
    \A p \in Procs :
        (/\ AccessDenied(p)
         /\ pc[p] = "done"
         /\ users0[op[p].user_id].chatCredits < chat_credit_cost) =>
            /\ ret[p].status_code = 403
            /\ ~trace[p].prechecked

\* C27: a chat request of an existing user with the credits for a chat, for
\* an agent_id that has no agent document, ends with 404 (not found), while a
\* request for an existing agent the user may not use ends with 403.
C27_UnknownAgentNotFound ==
    \A p \in Procs :
        (/\ op[p].kind = "chat"
         /\ op[p].user_id = op[p].current_user
         /\ pc[p] = "done"
         /\ trace[p].prechecked
         /\ local[p].available >= chat_credit_cost) =>
            /\ ~ai_agents[op[p].agent_id].exists =>
                   ret[p] = http_error(404, "AI agent not found")
            /\ AccessDenied(p) =>
                   ret[p] = http_error(403, "Access denied to this AI agent")


(***************************************************************************)
(* Concurrency of the requests of one user.                                *)
(***************************************************************************)
\* request p has entered its provider call and the call has not returned
InProvider(p) ==
    /\ pc[p] \in {"chat_provider", "gen_provider"}
    /\ trace[p].provider = "pending"

C29_SuccessfulChatAccounting ==
    /\ [](\A p \in ChatSucceeded :
              /\ ret[p].status_code = 200
              /\ trace[p].deduct_calls = 1
              /\ trace[p].charged = chat_credit_cost
              /\ ret[p].credits_remaining = local[p].remaining_credits)
    /\ [](AllDone =>
              \A u \in Users :
                  users[u].exists =>
                      users[u].chatCredits =
                          users0[u].chatCredits
                            - chat_credit_cost
                                * Cardinality({p \in ChatSucceeded :
                                                   op[p].user_id = u}))
    /\ [][\A p \in Procs :
              LET u == op[p].user_id
              IN /\ (Leaves(p, "chat_deduct") /\ pc'[p] = "chat_log") =>
                        /\ users'[u].chatCredits =
                               users[u].chatCredits - chat_credit_cost
                        /\ local'[p].remaining_credits = users'[u].chatCredits
                 /\ Leaves(p, "chat_log") =>
                        /\ ret'[p].credits_remaining = local[p].remaining_credits
                        /\ users' = users]_vars

\* the example of the claim at the scale of the model: balance 2, cost 1, no
\* other request: the call reports credits_remaining 1 and the balance is 1
C29_Witness ==
    \E p \in Procs :
        /\ p \in ChatSucceeded
        /\ \A q \in Procs \ {p} : pc[q] = "idle"
        /\ users0[op[p].user_id].chatCredits = 2
        /\ ret[p].credits_remaining = 1
        /\ users[op[p].user_id].chatCredits = 1


(***************************************************************************)
(* The cost of a generation.                                               *)
(***************************************************************************)
\* the cost the settings give to a media type
media_cost(media_type) ==
    CASE media_type = "image" -> image_generation_cost
      [] media_type = "album_art" -> image_generation_cost
      [] media_type = "music" -> music_generation_cost

\* C30: get_generation_cost returns image_generation_cost for image and for
\* album_art and music_generation_cost for music, whatever the duration
\* (absent included); so the cost a generation request is checked against,
\* charged and told is that of its media type alone.
C30_GenerationCost ==
    /\ \A m \in MediaTypes, d \in Durations :
           get_generation_cost(m, d) = media_cost(m)
    /\ \A m \in MediaTypes, d, e \in Durations :
           get_generation_cost(m, d) = get_generation_cost(m, e)
    /\ \A p \in Procs :
           op[p].kind = "gen" =>
               /\ trace[p].charged \in {0, media_cost(op[p].media_type)}
               /\ (pc[p] = "done" /\ IsPrecheckFailure(ret[p])) =>
                      ret[p].required = media_cost(op[p].media_type)
               /\ (pc[p] = "done" /\ ret[p].kind = "gen" /\ ~ret[p].error) =>
                      ret[p].credits_used = media_cost(op[p].media_type)

\* a music request with a duration has been charged the music cost, and an
\* album_art request with a duration was refused for want of the image cost
C30_Witness ==
    \E p, q \in Procs :
        /\ op[p].kind = "gen" /\ op[p].media_type = "music" /\ op[p].duration = 30
        /\ pc[p] = "done" /\ trace[p].charged = music_generation_cost
        /\ op[q].kind = "gen" /\ op[q].media_type = "album_art"
        /\ op[q].duration = 30
        /\ pc[q] = "done" /\ IsPrecheckFailure(ret[q])
        /\ ret[q].required = image_generation_cost


(***************************************************************************)
(* The outcomes of the handlers.                                           *)
(***************************************************************************)
\* the outcomes a handler may end with: a ChatResponse, a GenerateResponse
\* with status completed or failed, or an HTTPException with one of the
\* statuses the routes declare
TypedOutcome(r) ==
    \/ /\ r.kind = "chat"
       /\ r.status_code = 200
    \/ /\ r.kind = "gen"
       /\ r.status \in {"completed", "failed"}
       /\ r.status = "failed" <=> r.error
    \/ /\ r.kind = "error"
       /\ r.status_code \in {401, 402, 403, 404, 429, 500}

\* a step of the handler of request p, storage failures included
HandlerStep(p) ==
    \/ ChatCredits(p) \/ ChatAccess(p) \/ ChatProvider(p) \/ ChatDeduct(p)
    \/ ChatLog(p)
    \/ GenCredits(p) \/ GenProvider(p) \/ GenDeduct(p) \/ GenLog(p)

\* C31: every chat and generation request ends in exactly one typed outcome:
\* a request that has ended has a success result, a failed generation result
\* or an HTTP error of a declared status, also when a store, access or
\* provider step failed; its outcome is set in the step that ends it and
\* never changes; a request that has not ended has no outcome and can take
\* its next step.
C31_TypedOutcomesOnly ==
    /\ [](\A p \in Procs :
              /\ pc[p] = "done" => TypedOutcome(ret[p])
              /\ pc[p] # "done" => ret[p] = NoRet
              /\ pc[p] \notin {"idle", "done"} => ENABLED HandlerStep(p))
    /\ [][\A p \in Procs :
              /\ pc[p] = "done" => (pc'[p] = "done" /\ ret'[p] = ret[p])
              /\ ret'[p] # ret[p] => pc'[p] = "done"]_vars

\* one generation request has ended with a failed result after its provider
\* raised, one chat request has ended with an HTTP error after a storage
\* failure
C31_Witness ==
    \E p, q \in Procs :
        /\ pc[p] = "done" /\ op[p].kind = "gen"
        /\ trace[p].provider = "failed"
        /\ ret[p].kind = "gen" /\ ret[p].status = "failed"
        /\ pc[q] = "done" /\ op[q].kind = "chat"
        /\ trace[q].storage_failed
        /\ trace[q].provider = "ok"
        /\ ret[q].kind = "error"


(***************************************************************************)
(* Frame conditions.                                                       *)
(***************************************************************************)
\* C32: the step of a chat request that evaluates check_user_agent_access,
\* whether it grants or denies, leaves every user document (balances, tier,
\* last reset, agent team), the ledger, the interaction log and the rate
\* windows as they were.  The agent documents are never written by the
\* service.
C32_AccessCheckPureRead ==
    [][\A p \in Procs :
          Leaves(p, "chat_access") =>
              /\ users' = users
              /\ credit_transactions' = credit_transactions
              /\ ai_interactions' = ai_interactions
              /\ user_requests' = user_requests
              /\ address_requests' = address_requests
              /\ trace'[p].charged = trace[p].charged]_vars

\* one request has been denied by the access check and one has been granted,
\* and the user documents are those of the start
C32_Witness ==
    \E p, q \in Procs :
        /\ op[p].kind = "chat" /\ pc[p] = "done"
        /\ ret[p] = http_error(403, "Access denied to this AI agent")
        /\ op[q].kind = "chat" /\ pc[q] = "chat_provider"
        /\ op[q].agent_id = "agentA"
        /\ users = users0
        /\ credit_transactions = <<>>


(***************************************************************************)
(* SpecInitRace: two initialize calls for the new user u2 have both found  *)
(* no document (users.py 38, firestore_service.py 91); one of them has     *)
(* created the account and returned, the other (request 1) is about to     *)
(* create it.  This is a state SpecStore reaches with its two callers;     *)
(* here the caller that has returned is replaced by callers that have yet  *)
(* to make their call: deduct_credits, add_credits or initialize.          *)
(***************************************************************************)
InitRace ==
    /\ InitLimiter
    /\ credit_transactions = <<>>
    /\ ai_interactions = <<>>
    /\ now = reset_period_days
    /\ users = [u \in Users |->
           IF u = "u2"
           THEN user_data(free_chat_credits_monthly, free_gen_ai_credits_monthly,
                          now)
           ELSE NoDoc]
    /\ pc = [p \in Procs |-> IF p = 1 THEN "init_set" ELSE "idle"]
    /\ op = [p \in Procs |-> IF p = 1 THEN [user_id |-> "u2",
                                            kind |-> "initialize"]
                             ELSE NoOp]
    /\ local = [p \in Procs |-> NoLocal]
    /\ ret = [p \in Procs |-> NoRet]
    /\ trace = [p \in Procs |-> NoTrace]
    /\ users0 = users
    /\ baseline = [u \in Users |->
           [chatCredits |-> users[u].chatCredits,
            genAICredits |-> users[u].genAICredits,
            ledger |-> 0]]

NextRace ==
    \E p \in Procs :
        \/ CallDeduct(p) \/ DeductTxn(p)
        \/ CallAdd(p) \/ AddGet(p) \/ AddUpdate(p) \/ AddLog(p)
        \/ CallInitialize(p) \/ InitUserGet(p) \/ InitExists(p) \/ InitSet(p)
        \/ InitReturn(p)

SpecInitRace == InitRace /\ [][NextRace]_vars

\* the call of q has committed a change of a balance of user u
Committed(q, u) ==
    /\ op[q].kind \in {"deduct", "add"}
    /\ op[q].user_id = u
    /\ \/ op[q].kind = "deduct" /\ pc[q] = "done" /\ ret[q].success
       \/ op[q].kind = "add" /\ pc[q] = "add_log"
       \/ op[q].kind = "add" /\ pc[q] = "done" /\ ret[q].success

\* C33: once a deduction or an addition has been committed on an account, the
\* create step of an initialize call that started earlier does not put the
\* balances back to the tier default: it leaves both balances as they are.
C33_InitializeKeepsLiveBalance ==
    [][\A p \in Procs :
          LET u == op[p].user_id
          IN (Leaves(p, "init_set") /\ \E q \in Procs \ {p} : Committed(q, u)) =>
                 /\ users'[u].chatCredits = users[u].chatCredits
                 /\ users'[u].genAICredits = users[u].genAICredits]_vars


(***************************************************************************)
(* The usage log.                                                          *)
(***************************************************************************)
\* creditsUsed of interaction i as far as it is one of user u and of the type
LoggedUse(u, interaction_type) ==
    [i \in DOMAIN ai_interactions |->
        IF ai_interactions[i].userId = u
           /\ ai_interactions[i].type = interaction_type
        THEN ai_interactions[i].creditsUsed
        ELSE 0]

\* what the request of p has taken from the balance of u, as far as it is a
\* request of the kind
ChargedUse(u, kind) ==
    [p \in Procs |->
        IF op[p].kind = kind /\ op[p].user_id = u THEN trace[p].charged ELSE 0]

\* C34: in every quiescent state, for each user and each interaction type,
\* the creditsUsed of the user's logged interactions of that type add up to
\* the credits the user's requests of that type have taken from the balance;
\* and the credits_used of every generation response is what its own
\* deduction took.
C34_UsageLogMatchesCharges ==
    /\ Quiescent =>
           \A u \in Users :
               /\ SumOver(LoggedUse(u, "chat"), DOMAIN ai_interactions)
                      = SumOver(ChargedUse(u, "chat"), Procs)
               /\ SumOver(LoggedUse(u, "generation"), DOMAIN ai_interactions)
                      = SumOver(ChargedUse(u, "gen"), Procs)
    /\ \A p \in Procs :
           (pc[p] = "done" /\ ret[p].kind = "gen") =>
               ret[p].credits_used = trace[p].charged

\* the part of it about chat: the log and the charges of chat requests agree
C34_ChatLogMatchesCharges ==
    Quiescent =>
        \A u \in Users :
            SumOver(LoggedUse(u, "chat"), DOMAIN ai_interactions)
                = SumOver(ChargedUse(u, "chat"), Procs)


(***************************************************************************)
(* Absent accounts.                                                        *)
(***************************************************************************)
\* C35: deduct_credits, add_credits and reset_monthly_credits called for a
\* user without a document return (False, 0), False and False, leave the
\* users collection and the ledger as they were, and a user document comes
\* into existence only by the create step of an initialize call for that
\* user.
C35_AbsentAccountNotCreated ==
    [][/\ \A p \in Procs :
              LET u == op[p].user_id
              IN /\ (Leaves(p, "deduct_txn") /\ ~users[u].exists) =>
                        /\ pc'[p] = "done"
                        /\ ret'[p] = [kind |-> "deduct", success |-> FALSE,
                                      remaining |-> 0]
                        /\ users' = users
                        /\ credit_transactions' = credit_transactions
                 /\ (Leaves(p, "add_get") /\ ~users[u].exists) =>
                        /\ pc'[p] = "done"
                        /\ ret'[p] = [kind |-> "add", success |-> FALSE]
                        /\ users' = users
                        /\ credit_transactions' = credit_transactions
                 /\ (Leaves(p, "reset_get") /\ ~users[u].exists) =>
                        /\ pc'[p] = "done"
                        /\ ret'[p] = [kind |-> "reset", success |-> FALSE]
                        /\ users' = users
                        /\ credit_transactions' = credit_transactions
       /\ \A u \in Users :
              (~users[u].exists /\ users'[u].exists) =>
                  \E p \in Procs : /\ Leaves(p, "init_set")
                                   /\ op[p].kind = "initialize"
                                   /\ op[p].user_id = u
       /\ \A u \in Users : users[u].exists => users'[u].exists]_vars

\* a deduct_credits call and an add_credits call for the user without an
\* account have both failed, and the user still has no document
C35_Witness ==
    \E p, q \in Procs :
        /\ op[p].kind = "deduct" /\ op[p].user_id = "u2" /\ pc[p] = "done"
        /\ ret[p] = [kind |-> "deduct", success |-> FALSE, remaining |-> 0]
        /\ op[q].kind = "add" /\ op[q].user_id = "u2" /\ pc[q] = "done"
        /\ ~ret[q].success
        /\ users["u2"] = NoDoc
        /\ credit_transactions = <<>>


\* the fields of the document of u other than the balance of credit type t
\* are the same before and after the step
OtherFieldsKept(u, t) ==
    /\ t = "chat" => users'[u].genAICredits = users[u].genAICredits
    /\ t = "genai" => users'[u].chatCredits = users[u].chatCredits
    /\ users'[u].subscriptionTier = users[u].subscriptionTier
    /\ users'[u].lastCreditReset = users[u].lastCreditReset
    /\ users'[u].aiAgentTeam = users[u].aiAgentTeam
    /\ users'[u].exists = users[u].exists

\* C36: a deduct_credits or add_credits call for credit type chat never
\* changes genAICredits, one for credit type genai never changes chatCredits,
\* and neither changes subscriptionTier or lastCreditReset: each step of such
\* a call leaves these fields of the user's document as they were.
C36_CreditTypeFrame ==
    [][\A p \in Procs :
          LET u == op[p].user_id
          IN (\/ Leaves(p, "deduct_txn")
              \/ Leaves(p, "add_get") \/ Leaves(p, "add_update")
              \/ Leaves(p, "add_log")) =>
                 OtherFieldsKept(u, op[p].credit_type)]_vars

\* a deduction of chat credits and an addition of generation credits for u1
\* have both been committed: each balance has changed by its own call only
C36_Witness ==
    \E p, q \in Procs :
        /\ op[p].kind = "deduct" /\ op[p].user_id = "u1"
        /\ op[p].credit_type = "chat" /\ pc[p] = "done" /\ ret[p].success
        /\ op[q].kind = "add" /\ op[q].user_id = "u1"
        /\ op[q].credit_type = "genai" /\ pc[q] = "done" /\ ret[q].success
        /\ users["u1"].chatCredits = users0["u1"].chatCredits - op[p].amount
        /\ users["u1"].genAICredits = users0["u1"].genAICredits + op[q].amount
        /\ users["u1"].subscriptionTier = "pro"
        /\ users["u1"].lastCreditReset = users0["u1"].lastCreditReset


IsSuffix(s, before) ==
    /\ Len(s) <= Len(before)
    /\ s = SubSeq(before, Len(before) - Len(s) + 1, Len(before))

\* C38: after a check for a user at time t the user's window holds at most
\* rate_limit_per_minute timestamps, in non-decreasing order, none of them
\* before t - 60; a denied check has added no timestamp (the window is what
\* eviction left of the window it found), an allowed check has added t.
C38_RateWindowInvariant ==
    \A u \in Users :
        rate_hist[u].n > 0 =>
            LET window == user_requests[u]
                t == rate_hist[u].current_time
            IN /\ Len(window) <= rate_limit_per_minute
               /\ \A i, j \in DOMAIN window : i <= j => window[i] <= window[j]
               /\ \A i \in DOMAIN window : window[i] >= t - window_seconds
               /\ ~rate_ret[u].allowed => IsSuffix(window, rate_hist[u].before)
               /\ rate_ret[u].allowed =>
                      /\ window # <<>>
                      /\ window[Len(window)] = t
                      /\ IsSuffix(SubSeq(window, 1, Len(window) - 1),
                                  rate_hist[u].before)

\* a check at second 60 was denied: the window is full, unchanged, and its
\* oldest timestamp is exactly 60 seconds old
C38_Witness ==
    \E u \in Users :
        /\ rate_hist[u].n > rate_limit_per_minute
        /\ ~rate_ret[u].allowed
        /\ Len(user_requests[u]) = rate_limit_per_minute
        /\ user_requests[u] = rate_hist[u].before
        /\ user_requests[u][1] = rate_hist[u].current_time - window_seconds


(***************************************************************************)
(* Concurrent resets.                                                      *)
(***************************************************************************)
\* the reset_monthly_credits calls for user u that have returned True
ResetSucceeded(u) ==
    {p \in Procs : /\ op[p].kind = "reset" /\ op[p].user_id = u
                   /\ pc[p] = "done" /\ ret[p].success}

\* C39: when every caller has called reset_monthly_credits for the same
\* user, who was due for one reset, at most one of the calls returns True,
\* and when all have returned the account is as one reset leaves it: both
\* balances at the allotment of the tier.
C39_SingleResetUnderConcurrency ==
    \A u \in Users :
        (\A p \in Procs : op[p].kind = "reset" /\ op[p].user_id = u) =>
            /\ Cardinality(ResetSucceeded(u)) <= 1
            /\ (AllDone /\ ResetSucceeded(u) # {}) =>
                   /\ users[u].chatCredits =
                          chat_allotment(users[u].subscriptionTier)
                   /\ users[u].genAICredits =
                          gen_allotment(users[u].subscriptionTier)

=============================================================================
